---- MODULE Spec2Model ----
(***************************************************************************)
(* ValueContainer of rust_container_system (src/src/core/container.rs):    *)
(* a header record plus a value store kept twice, as the insertion-ordered *)
(* Vec `values` and as the HashMap `value_map` from name to the Vec of the *)
(* values of that name, behind one parking_lot RwLock.                     *)
(*                                                                         *)
(* A value (Arc<dyn Value>) is a pointer into `heap`; two Arcs are the     *)
(* same value object exactly when they are the same pointer.               *)
(***************************************************************************)
EXTENDS Integers, Sequences, FiniteSets, TLC

\* container.rs:11 and container.rs:14
DEFAULT_MAX_VALUES == 10000
ABSOLUTE_MAX_VALUES == 100000

\* Bounds of the model.
MaxLen == 3

\* The value objects the callers hold before any call (built by IntValue::new and
\* ContainerValue::new): 1 and 2 carry the same payload under different names,
\* 1 and 3 share a name, 3 is a ContainerValue whose one child is object 2.
StaticPtrs == {1, 2, 3}
InitHeap ==
  (1 :> [name |-> "a", vtype |-> "int", data |-> 42, children |-> <<>>]) @@
  (2 :> [name |-> "b", vtype |-> "int", data |-> 42, children |-> <<>>]) @@
  (3 :> [name |-> "a", vtype |-> "container", data |-> 0, children |-> <<2>>])

Names == {"a", "b"}

\* Ceilings asked of with_max_values: a small one, and one above the hard ceiling.
RequestedMax == {2, ABSOLUTE_MAX_VALUES + 1}

VARIABLES
  heap,    \* pointer -> value object (name, type, payload, child pointers)
  inner,   \* the ContainerInner behind the container's RwLock
  copied,  \* the ContainerInner of the container the last call returned, if any
  last,    \* the call that returned last, with its arguments and result
  lock,    \* the RwLock around inner: the writer holding it (0: none), the readers
  pc,      \* thread -> where it is in its call ("idle": in no call)
  cur      \* thread -> the call it is in, with its arguments and locals

vars == <<heap, inner, copied, last, lock, pc, cur>>

\* The threads that share the container (each holds a clone of the handle).
Threads == {1, 2}

Min(a, b) == IF a <= b THEN a ELSE b

Range(s) == {s[i] : i \in 1..Len(s)}

\* ---------------------------------------------------------------- constructors

EmptyMap == [n \in {} |-> <<>>]

\* ValueContainer::new
new ==
  [source_id |-> "", source_sub_id |-> "", target_id |-> "", target_sub_id |-> "",
   message_type |-> "data_container", version |-> "1.0.0.0",
   values |-> <<>>, value_map |-> EmptyMap, max_values |-> DEFAULT_MAX_VALUES]

\* A with_max_values that stores the requested ceiling as it is.
with_max_values_uncapped(max_values) == [new EXCEPT !.max_values = max_values]

\* ValueContainer::with_max_values
with_max_values(max_values) ==
  [new EXCEPT !.max_values = Min(max_values, ABSOLUTE_MAX_VALUES)]

\* ---------------------------------------------------------------- header

set_source(in, id, sub_id) == [in EXCEPT !.source_id = id, !.source_sub_id = sub_id]

set_target(in, id, sub_id) == [in EXCEPT !.target_id = id, !.target_sub_id = sub_id]

set_message_type(in, message_type) == [in EXCEPT !.message_type = message_type]

\* A swap written without the temporary: the source is overwritten before it is read.
swap_header_without_temp(in) ==
  [in EXCEPT !.source_id = in.target_id, !.target_id = in.target_id,
             !.source_sub_id = in.target_sub_id, !.target_sub_id = in.target_sub_id]

\* ValueContainer::swap_header
swap_header(in) ==
  [in EXCEPT !.source_id = in.target_id, !.target_id = in.source_id,
             !.source_sub_id = in.target_sub_id, !.target_sub_id = in.source_sub_id]

\* ---------------------------------------------------------------- value store

\* inner.values.push(Arc::clone(&value))
push_values(in, p) == [in EXCEPT !.values = Append(@, p)]

\* value_map.insert(name, vec![value]) in place of entry().or_default().push(value).
push_map_overwrite(m, name, p) ==
  [n \in DOMAIN m \cup {name} |-> IF n = name THEN <<p>> ELSE m[n]]

\* inner.value_map.entry(name).or_default().push(value)
push_map(m, name, p) ==
  [n \in DOMAIN m \cup {name} |->
     IF n = name
       THEN (IF name \in DOMAIN m THEN Append(m[name], p) ELSE <<p>>)
       ELSE m[n]]

\* The capacity check with > in place of >=.
limit_reached_off_by_one(in) == Len(in.values) > in.max_values

\* The capacity check that refuses the last place.
limit_reached_one_early(in) == Len(in.values) + 1 >= in.max_values

\* The capacity check of add_value.
limit_reached(in) == Len(in.values) >= in.max_values

\* An add_value that makes room by evicting the oldest value before it refuses.
add_value_evicting(in, p, name) ==
  IF limit_reached(in)
    THEN [ok |-> FALSE, inner |-> [in EXCEPT !.values = Tail(@)]]
    ELSE [ok |-> TRUE,
          inner |-> [push_values(in, p) EXCEPT !.value_map = push_map(in.value_map, name, p)]]

\* ValueContainer::add_value: the record after the call and whether it returned Ok.
add_value(in, p, name) ==
  IF limit_reached(in)
    THEN [ok |-> FALSE, inner |-> in]
    ELSE [ok |-> TRUE,
          inner |-> [push_values(in, p) EXCEPT !.value_map = push_map(in.value_map, name, p)]]

\* A retain that compares the rendered payloads and not the pointers.
retain_by_rendering(values, removed_ptrs) ==
  SelectSeq(values, LAMBDA v :
    InitHeap[v].data \notin {InitHeap[q].data : q \in removed_ptrs})

\* inner.values.retain(|value| !removed_ptrs.contains(&Arc::as_ptr(value)))
retain(values, removed_ptrs) == SelectSeq(values, LAMBDA v : v \notin removed_ptrs)

\* ValueContainer::remove_value: the record after the call and the bool it returns.
remove_value(in, name) ==
  IF name \in DOMAIN in.value_map
    THEN [ok |-> TRUE,
          inner |-> [in EXCEPT
                       !.value_map = [n \in DOMAIN in.value_map \ {name} |-> in.value_map[n]],
                       !.values = retain(in.values, Range(in.value_map[name]))]]
    ELSE [ok |-> FALSE, inner |-> in]

\* A clear that resets the whole record, header included (*inner = new()).
clear_values_resetting(in) == [new EXCEPT !.max_values = in.max_values]

\* ValueContainer::clear_values
clear_values(in) == [in EXCEPT !.values = <<>>, !.value_map = EmptyMap]

\* A get_value that takes values.last().
get_value_last(in, name) ==
  IF name \in DOMAIN in.value_map /\ Len(in.value_map[name]) > 0
    THEN in.value_map[name][Len(in.value_map[name])] ELSE 0

\* ValueContainer::get_value: the first value of the name, 0 for None.
get_value(in, name) ==
  IF name \in DOMAIN in.value_map /\ Len(in.value_map[name]) > 0
    THEN in.value_map[name][1] ELSE 0

\* ValueContainer::get_value_array
get_value_array(in, name) ==
  IF name \in DOMAIN in.value_map THEN in.value_map[name] ELSE <<>>

\* ---------------------------------------------------------------- copy

\* Value::clone_value, Arc::new(self.clone()): a new object with the same name and
\* payload. The derived Clone of ContainerValue clones the Vec<Arc<dyn Value>> of
\* children, that is the Arcs and not the children they point to.
clone_value(v) ==
  [name |-> v.name, vtype |-> v.vtype, data |-> v.data, children |-> v.children]

\* The first pointer no object of the heap has.
NextPtr(h) == 1 + Cardinality(DOMAIN h)

\* inner.values.iter().map(|v| v.clone_value()).collect(): the i-th clone is a
\* new allocation.
cloned_values(values, h) == [i \in 1..Len(values) |-> NextPtr(h) + i - 1]

heap_after_clone(values, h) ==
  h @@ [q \in {NextPtr(h) + i - 1 : i \in 1..Len(values)} |->
          clone_value(h[values[q - NextPtr(h) + 1]])]

\* for value in &cloned_values { new_value_map.entry(name).or_default().push(..) }
RECURSIVE rebuild_map(_, _, _)
rebuild_map(m, vs, h) ==
  IF vs = <<>> THEN m
  ELSE rebuild_map(push_map(m, h[Head(vs)].name, Head(vs)), Tail(vs), h)

\* ValueContainer::copy: the new ContainerInner and the heap after the clones.
copy(in, including_values, h) ==
  IF including_values
    THEN [heap  |-> heap_after_clone(in.values, h),
          inner |-> [in EXCEPT
                       !.values = cloned_values(in.values, h),
                       !.value_map = rebuild_map(EmptyMap, cloned_values(in.values, h),
                                                 heap_after_clone(in.values, h))]]
    ELSE [heap  |-> h,
          inner |-> [in EXCEPT !.values = <<>>, !.value_map = EmptyMap]]

\* ---------------------------------------------------------------- the lock

\* parking_lot::RwLock<ContainerInner>
Unlocked == [writer |-> 0, readers |-> {}]

\* A write() that does not wait at all.
can_write_unguarded(l) == TRUE

\* A write() that waits for the writer only, as read() does.
can_write_among_readers(l) == l.writer = 0

\* inner.write() returns once no thread holds the lock.
can_write(l) == l.writer = 0 /\ l.readers = {}

\* A read() that does not wait for the writer.
can_read_beside_writer(l) == TRUE

\* inner.read() returns once no writer holds the lock.
can_read(l) == l.writer = 0

write_lock(l, t) == [l EXCEPT !.writer = t]

read_lock(l, t) == [l EXCEPT !.readers = @ \cup {t}]

\* The guard is dropped when the call returns.
unlock(l, t) ==
  IF l.writer = t THEN [l EXCEPT !.writer = 0] ELSE [l EXCEPT !.readers = @ \ {t}]

\* ---------------------------------------------------------------- calls

\* A call as the caller sees it: the operation, its arguments, and what it
\* returned (ok: Ok / true; rptr: an Option<Arc>, 0 for None; rseq: a Vec<Arc>).
Call(op, name, ptr, ok, rptr, rseq) ==
  [op |-> op, name |-> name, ptr |-> ptr, ok |-> ok, rptr |-> rptr, rseq |-> rseq]

\* The call a thread is in: the operation, its arguments (name, ptr), the local
\* removed_ptrs of remove_value, and, for a call made from inside a callback, the
\* accessor whose callback makes it ("" otherwise).
InCall(op, name, ptr, outer) ==
  [op |-> op, name |-> name, ptr |-> ptr, removed |-> {}, outer |-> outer]

NoCall == InCall("none", "", 0, "")

Init ==
  /\ heap = InitHeap
  /\ \E m \in RequestedMax : inner = with_max_values(m)
  /\ copied = <<>>
  /\ last = Call("with_max_values", "", 0, TRUE, 0, <<>>)
  /\ lock = Unlocked
  /\ pc = [t \in Threads |-> "idle"]
  /\ cur = [t \in Threads |-> NoCall]

\* The container a copy() returned, and the clones it allocated, live until the
\* caller's next call.
DropCopy == heap' = InitHeap /\ copied' = <<>>

SetSource ==
  /\ inner' = set_source(inner, "S", "s")
  /\ last' = Call("set_source", "", 0, TRUE, 0, <<>>)
  /\ DropCopy

SetTarget ==
  /\ inner' = set_target(inner, "T", "t")
  /\ last' = Call("set_target", "", 0, TRUE, 0, <<>>)
  /\ DropCopy

SetMessageType ==
  /\ inner' = set_message_type(inner, "m")
  /\ last' = Call("set_message_type", "", 0, TRUE, 0, <<>>)
  /\ DropCopy

SwapHeader ==
  /\ inner' = swap_header(inner)
  /\ last' = Call("swap_header", "", 0, TRUE, 0, <<>>)
  /\ DropCopy

AddValue(p) ==
  /\ Len(inner.values) < MaxLen \/ limit_reached(inner)
  /\ LET r == add_value(inner, p, heap[p].name) IN
       /\ inner' = r.inner
       /\ last' = Call("add_value", heap[p].name, p, r.ok, 0, <<>>)
  /\ DropCopy

RemoveValue(name) ==
  /\ LET r == remove_value(inner, name) IN
       /\ inner' = r.inner
       /\ last' = Call("remove_value", name, 0, r.ok, 0, <<>>)
  /\ DropCopy

ClearValues ==
  /\ inner' = clear_values(inner)
  /\ last' = Call("clear_values", "", 0, TRUE, 0, <<>>)
  /\ DropCopy

GetValue(name) ==
  /\ last' = Call("get_value", name, 0, TRUE, get_value(inner, name), <<>>)
  /\ inner' = inner
  /\ DropCopy

GetValueArray(name) ==
  /\ last' = Call("get_value_array", name, 0, TRUE, 0, get_value_array(inner, name))
  /\ inner' = inner
  /\ DropCopy

Copy(including_values) ==
  /\ LET r == copy(inner, including_values, InitHeap) IN
       /\ heap' = r.heap
       /\ copied' = <<r.inner>>
  /\ last' = Call("copy", "", 0, including_values, 0, <<>>)
  /\ inner' = inner

\* One caller, each call run from lock to unlock.
Next ==
  \/ SetSource
  \/ SetTarget
  \/ SetMessageType
  \/ SwapHeader
  \/ \E p \in StaticPtrs : AddValue(p)
  \/ \E name \in Names : RemoveValue(name)
  \/ ClearValues
  \/ \E name \in Names : GetValue(name)
  \/ \E name \in Names : GetValueArray(name)
  \/ \E b \in BOOLEAN : Copy(b)

Spec == Init /\ [][Next /\ UNCHANGED <<lock, pc, cur>>]_vars

\* ---------------------------------------------------------------- threads

\* The operations that take inner.write() and those that take inner.read().
Mutators ==
  {"add_value", "remove_value", "clear_values", "set_source", "set_target",
   "set_message_type", "swap_header"}

Accessors == {"get_value", "values", "copy", "with_values", "with_value_array"}

\* The calls the threads make.
Calls ==
  {InCall("add_value", InitHeap[p].name, p, "") : p \in StaticPtrs}
    \cup {InCall(op, n, 0, "") : op \in {"remove_value", "get_value", "with_value_array"},
                                 n \in Names}
    \cup {InCall(op, "", 0, "") : op \in (Mutators \cup Accessors) \
            {"add_value", "remove_value", "get_value", "with_value_array"}}

\* The add_value calls in progress.
PendingAdds == Cardinality({t \in Threads : cur[t].op = "add_value"})

Goto(t, label) == pc' = [pc EXCEPT ![t] = label]

\* The call of thread t returns: its guard is dropped, and the thread is back in
\* the callback that made the call, or in no call.
Return(t) ==
  /\ lock' = unlock(lock, t)
  /\ IF cur[t].outer = ""
       THEN Goto(t, "idle") /\ cur' = [cur EXCEPT ![t] = NoCall]
       ELSE Goto(t, "callback") /\ cur' = [cur EXCEPT ![t] = InCall(cur[t].outer, "", 0, "")]

At(t, label, ops) == pc[t] = label /\ cur[t].op \in ops

Invoke(t, call) ==
  /\ pc[t] = "idle"
  /\ call.op = "add_value" =>
       (Len(inner.values) + PendingAdds < MaxLen \/ limit_reached(inner))
  /\ Goto(t, "acquire")
  /\ cur' = [cur EXCEPT ![t] = call]
  /\ UNCHANGED <<heap, inner, copied, last, lock>>

\* let mut inner = self.inner.write();  /  let inner = self.inner.read();
Acquire(t) ==
  /\ pc[t] = "acquire"
  /\ IF cur[t].op \in Mutators
       THEN can_write(lock) /\ lock' = write_lock(lock, t)
       ELSE can_read(lock) /\ lock' = read_lock(lock, t)
  /\ Goto(t, "locked")
  /\ UNCHANGED <<heap, inner, copied, last, cur>>

\* add_value: the capacity check, and the early return of the error.
AddCheck(t) ==
  /\ At(t, "locked", {"add_value"})
  /\ IF limit_reached(inner)
       THEN Return(t)
       ELSE Goto(t, "push") /\ UNCHANGED <<lock, cur>>
  /\ UNCHANGED <<heap, inner, copied, last>>

\* add_value: inner.values.push(Arc::clone(&value))
AddPushValues(t) ==
  /\ At(t, "push", {"add_value"})
  /\ inner' = push_values(inner, cur[t].ptr)
  /\ Goto(t, "index")
  /\ UNCHANGED <<heap, copied, last, lock, cur>>

\* add_value: the push to the bucket of the name, and Ok(()).
AddPushMap(t) ==
  /\ At(t, "index", {"add_value"})
  /\ inner' = [inner EXCEPT !.value_map = push_map(@, cur[t].name, cur[t].ptr)]
  /\ Return(t)
  /\ UNCHANGED <<heap, copied, last>>

\* remove_value: inner.value_map.remove(name), false when there is no bucket.
RemoveBucket(t) ==
  /\ At(t, "locked", {"remove_value"})
  /\ IF cur[t].name \in DOMAIN inner.value_map
       THEN /\ inner' = [inner EXCEPT !.value_map =
                           [n \in DOMAIN @ \ {cur[t].name} |-> @[n]]]
            /\ cur' = [cur EXCEPT ![t].removed = Range(inner.value_map[cur[t].name])]
            /\ Goto(t, "retain")
            /\ UNCHANGED lock
       ELSE Return(t) /\ UNCHANGED inner
  /\ UNCHANGED <<heap, copied, last>>

\* remove_value: inner.values.retain(..), and true.
RemoveRetain(t) ==
  /\ At(t, "retain", {"remove_value"})
  /\ inner' = [inner EXCEPT !.values = retain(@, cur[t].removed)]
  /\ Return(t)
  /\ UNCHANGED <<heap, copied, last>>

\* clear_values: inner.values.clear()
ClearSequence(t) ==
  /\ At(t, "locked", {"clear_values"})
  /\ inner' = [inner EXCEPT !.values = <<>>]
  /\ Goto(t, "index")
  /\ UNCHANGED <<heap, copied, last, lock, cur>>

\* clear_values: inner.value_map.clear()
ClearMap(t) ==
  /\ At(t, "index", {"clear_values"})
  /\ inner' = [inner EXCEPT !.value_map = EmptyMap]
  /\ Return(t)
  /\ UNCHANGED <<heap, copied, last>>

\* set_source, set_target, swap_header: the assignment of the id(s).
HeaderIds(t) ==
  /\ At(t, "locked", {"set_source", "set_target", "swap_header"})
  /\ inner' = CASE cur[t].op = "set_source" -> [inner EXCEPT !.source_id = "S"]
                [] cur[t].op = "set_target" -> [inner EXCEPT !.target_id = "T"]
                [] OTHER -> [inner EXCEPT !.source_id = inner.target_id,
                                          !.target_id = inner.source_id]
  /\ Goto(t, "sub_id")
  /\ UNCHANGED <<heap, copied, last, lock, cur>>

\* set_source, set_target, swap_header: the assignment of the sub id(s).
HeaderSubIds(t) ==
  /\ At(t, "sub_id", {"set_source", "set_target", "swap_header"})
  /\ inner' = CASE cur[t].op = "set_source" -> [inner EXCEPT !.source_sub_id = "s"]
                [] cur[t].op = "set_target" -> [inner EXCEPT !.target_sub_id = "t"]
                [] OTHER -> [inner EXCEPT !.source_sub_id = inner.target_sub_id,
                                          !.target_sub_id = inner.source_sub_id]
  /\ Return(t)
  /\ UNCHANGED <<heap, copied, last>>

SetMessageTypeLocked(t) ==
  /\ At(t, "locked", {"set_message_type"})
  /\ inner' = set_message_type(inner, "m")
  /\ Return(t)
  /\ UNCHANGED <<heap, copied, last>>

\* get_value, values, copy: the result is built under the guard and returned.
\* with_value_array returns None without running the callback when the name has
\* no bucket.
ReadAndReturn(t) ==
  /\ \/ At(t, "locked", {"get_value", "values", "copy"})
     \/ /\ At(t, "locked", {"with_value_array"})
        /\ cur[t].name \notin DOMAIN inner.value_map
  /\ Return(t)
  /\ UNCHANGED <<heap, inner, copied, last>>

\* with_values, with_value_array: f(&inner.values) runs under the read guard.
EnterCallback(t) ==
  /\ \/ At(t, "locked", {"with_values"})
     \/ /\ At(t, "locked", {"with_value_array"})
        /\ cur[t].name \in DOMAIN inner.value_map
  /\ Goto(t, "callback")
  /\ UNCHANGED <<heap, inner, copied, last, lock, cur>>

\* The callback returns, and the accessor with it.
CallbackReturns(t) ==
  /\ pc[t] = "callback"
  /\ Return(t)
  /\ UNCHANGED <<heap, inner, copied, last>>

\* The callback calls add_value on its clone of the container handle.
CallbackCallsAdd(t, p) ==
  /\ pc[t] = "callback"
  /\ Len(inner.values) + PendingAdds < MaxLen \/ limit_reached(inner)
  /\ Goto(t, "acquire")
  /\ cur' = [cur EXCEPT ![t] = InCall("add_value", InitHeap[p].name, p, cur[t].op)]
  /\ UNCHANGED <<heap, inner, copied, last, lock>>

\* A step of thread t inside a call.
Step(t) ==
  \/ Acquire(t)
  \/ AddCheck(t)
  \/ AddPushValues(t)
  \/ AddPushMap(t)
  \/ RemoveBucket(t)
  \/ RemoveRetain(t)
  \/ ClearSequence(t)
  \/ ClearMap(t)
  \/ HeaderIds(t)
  \/ HeaderSubIds(t)
  \/ SetMessageTypeLocked(t)
  \/ ReadAndReturn(t)
  \/ EnterCallback(t)
  \/ CallbackReturns(t)
  \/ \E p \in StaticPtrs : CallbackCallsAdd(t, p)

NextConc == \E t \in Threads : (\E call \in Calls : Invoke(t, call)) \/ Step(t)

\* Threads sharing one container, each call a sequence of steps under the lock.
SpecConc == Init /\ [][NextConc]_vars

\* The same, with the scheduling the threads get: a thread that can take a step
\* of its call takes it, and the lock is handed to a thread that waits for it and
\* could have it again and again (parking_lot's eventual fairness).
SpecConcFair ==
  SpecConc /\ \A t \in Threads : WF_vars(Step(t)) /\ SF_vars(Acquire(t))

\* The threads of test_concurrent_modifications and test_concurrent_container_access:
\* every call is an add_value.
NextAdders ==
  \E t \in Threads :
    \/ \E call \in {c \in Calls : c.op = "add_value"} : Invoke(t, call)
    \/ Acquire(t)
    \/ AddCheck(t)
    \/ AddPushValues(t)
    \/ AddPushMap(t)

SpecAdders == Init /\ [][NextAdders]_vars

\* ---------------------------------------------------------------- properties

NameOf(h, p) == h[p].name

\* The value sequence regrouped by name: the names that occur in it, and for each
\* the subsequence of the values of that name.
NamesIn(values, h) == {NameOf(h, values[i]) : i \in 1..Len(values)}

Group(values, h, n) == SelectSeq(values, LAMBDA p : NameOf(h, p) = n)

IndexIsRegrouping(in, h) ==
  /\ DOMAIN in.value_map = NamesIn(in.values, h)
  /\ \A n \in DOMAIN in.value_map : in.value_map[n] = Group(in.values, h, n)

\* C1: after any sequence of add_value, remove_value and clear_values calls the
\* name index is exactly the insertion-ordered sequence regrouped by name: the same
\* values with the same multiplicities, each name's list in the sequence's order
\* (and so is the index copy() rebuilds).
C1_IndexIsRegrouping ==
  /\ IndexIsRegrouping(inner, heap)
  /\ \A i \in 1..Len(copied) : IndexIsRegrouping(copied[i], heap)

\* C1 witness: a remove_value has removed the values of one name and left others,
\* among them two of one name.
C1_Witness ==
  /\ last.op = "remove_value" /\ last.ok
  /\ \E n \in DOMAIN inner.value_map : Len(inner.value_map[n]) >= 2

\* C3: add_value returns Ok exactly when the container holds fewer than max_values
\* values, and an Ok call makes the count one more: so max_values + 1 insertions into
\* an empty container give max_values successes and one error, and an insertion
\* succeeds again once remove_value has brought the count below the ceiling.
C3_AddSucceedsIffBelowCeiling ==
  [][last'.op = "add_value" =>
       /\ last'.ok <=> (Len(inner.values) < inner.max_values)
       /\ last'.ok => Len(inner'.values) = Len(inner.values) + 1]_vars

\* C3 witness: an add_value was refused on a full container.
C3_Witness ==
  /\ last.op = "add_value" /\ ~last.ok
  /\ Len(inner.values) = inner.max_values

\* C4: an add_value refused for capacity leaves the container as it was: sequence,
\* index, header and ceiling.
C4_RejectedAddChangesNothing ==
  [][(last'.op = "add_value" /\ ~last'.ok) => inner' = inner]_vars

\* C4 witness: an add_value was refused on a container with values and a header set.
C4_Witness ==
  /\ last.op = "add_value" /\ ~last.ok
  /\ inner.values # <<>> /\ inner.source_id = "S"

\* C5: remove_value(name) removes from the sequence and from the index the values
\* named `name` and no other; the rest keep their order.
C5_RemoveExactlyTheName ==
  [][last'.op = "remove_value" =>
       /\ inner'.values = SelectSeq(inner.values, LAMBDA p : NameOf(heap, p) # last'.name)
       /\ DOMAIN inner'.value_map = DOMAIN inner.value_map \ {last'.name}
       /\ \A n \in DOMAIN inner'.value_map : inner'.value_map[n] = inner.value_map[n]
       /\ last'.ok <=> (last'.name \in NamesIn(inner.values, heap))]_vars

\* C5 witness: remove_value("a") has removed a value whose payload renders as that of
\* value 2, named "b", which remains.
C5_Witness ==
  /\ last.op = "remove_value" /\ last.ok /\ last.name = "a"
  /\ 2 \in Range(inner.values)
  /\ heap[2].data = heap[1].data

\* The value objects reachable from a set of pointers through children.
Children(ps, h) == UNION {Range(h[p].children) : p \in ps}

RECURSIVE Reach(_, _)
Reach(ps, h) ==
  LET n == ps \cup Children(ps, h) IN IF n = ps THEN ps ELSE Reach(n, h)

\* C9 (as claimed): the container copy(true) returns has the header, ceiling and
\* values (names and payloads, in order) of the original and shares no value object
\* with it.
C9_DeepCopySharesNothing ==
  (last.op = "copy" /\ last.ok) =>
     /\ Len(copied) = 1
     /\ [copied[1] EXCEPT !.values = <<>>, !.value_map = EmptyMap]
          = [inner EXCEPT !.values = <<>>, !.value_map = EmptyMap]
     /\ Len(copied[1].values) = Len(inner.values)
     /\ \A i \in 1..Len(inner.values) :
          /\ heap[copied[1].values[i]].name = heap[inner.values[i]].name
          /\ heap[copied[1].values[i]].data = heap[inner.values[i]].data
     /\ Reach(Range(copied[1].values), heap) \cap Reach(Range(inner.values), heap) = {}

\* C25: clone_value of a Container or an Array value clones its children: the
\* clone copy(true) made of a value shares no child object with the value it was
\* cloned from.
C25_CloneValueIsDeep ==
  (last.op = "copy" /\ last.ok) =>
     \A i \in 1..Len(inner.values) :
       Range(heap[copied[1].values[i]].children)
         \cap Range(heap[inner.values[i]].children) = {}

\* C10: swap_header exchanges (source_id, source_sub_id) with (target_id,
\* target_sub_id) and leaves message_type, version, the ceiling and the values.
C10_SwapHeaderExchanges ==
  [][last'.op = "swap_header" =>
       /\ inner'.source_id = inner.target_id
       /\ inner'.source_sub_id = inner.target_sub_id
       /\ inner'.target_id = inner.source_id
       /\ inner'.target_sub_id = inner.source_sub_id
       /\ inner'.message_type = inner.message_type
       /\ inner'.version = inner.version
       /\ inner'.max_values = inner.max_values
       /\ inner'.values = inner.values
       /\ inner'.value_map = inner.value_map]_vars

\* C10 witness: swap_header has turned source (S, s), target (T, t) around on a
\* container with a message type set and values stored.
C10_Witness ==
  /\ last.op = "swap_header"
  /\ inner.source_id = "T" /\ inner.source_sub_id = "t"
  /\ inner.target_id = "S" /\ inner.target_sub_id = "s"
  /\ inner.message_type = "m" /\ inner.values # <<>>

\* C11: clear_values leaves no value in the sequence nor in the index, and leaves
\* every header field (and the ceiling) as it was.
C11_ClearKeepsHeader ==
  [][last'.op = "clear_values" =>
       /\ inner'.values = <<>>
       /\ DOMAIN inner'.value_map = {}
       /\ inner'.source_id = inner.source_id
       /\ inner'.source_sub_id = inner.source_sub_id
       /\ inner'.target_id = inner.target_id
       /\ inner'.target_sub_id = inner.target_sub_id
       /\ inner'.message_type = inner.message_type
       /\ inner'.version = inner.version
       /\ inner'.max_values = inner.max_values]_vars

\* C11 witness: clear_values has emptied a container whose header has a source, a
\* target and a message type set.
C11_Witness ==
  /\ last.op = "clear_values"
  /\ inner.source_id = "S" /\ inner.target_sub_id = "t" /\ inner.message_type = "m"
  /\ inner.values = <<>>

\* C12: get_value_array(name) returns the values stored under the name in the order
\* of their insertion, and get_value(name) the first of them, None when there is none.
C12_GetReturnsGroupAndFirst ==
  [][/\ last'.op = "get_value_array" =>
          last'.rseq = Group(inner.values, heap, last'.name)
     /\ last'.op = "get_value" =>
          last'.rptr = (IF Group(inner.values, heap, last'.name) = <<>>
                          THEN 0 ELSE Head(Group(inner.values, heap, last'.name)))]_vars

\* C12 witness: get_value has returned the first of two different values stored
\* under one name.
C12_Witness ==
  /\ last.op = "get_value" /\ last.rptr # 0
  /\ Len(Group(inner.values, heap, last.name)) >= 2
  /\ Group(inner.values, heap, last.name)[2] # last.rptr

\* ---------------------------------------------------------------- properties of the threads

\* Thread t holds the shared lock.
Reading(t) == t \in lock.readers

\* C2: in every state, also while several threads insert, the number of stored
\* values is at most max_values, and max_values is at most ABSOLUTE_MAX_VALUES
\* whatever ceiling was asked of with_max_values.
C2_CountWithinCeiling ==
  /\ Len(inner.values) <= inner.max_values
  /\ inner.max_values <= ABSOLUTE_MAX_VALUES

\* C2 witness: two threads are in add_value on a container that is full, one of
\* them still waiting for the lock.
C2_Witness ==
  /\ Len(inner.values) = inner.max_values
  /\ \A t \in Threads : cur[t].op = "add_value"
  /\ \E t \in Threads : pc[t] = "acquire"

\* C6: a reader (a thread holding the shared lock) never sees the sequence and the
\* index disagree: no value is in one and not in the other.
C6_ReadersSeeBothOrNeither ==
  \A t \in Threads : Reading(t) => IndexIsRegrouping(inner, heap)

\* C6 witness: a reader waits for the lock while add_value has pushed its value to
\* the sequence and not yet to the index.
C6_Witness ==
  \E t, u \in Threads :
    /\ pc[t] = "index" /\ cur[t].op = "add_value"
    /\ pc[u] = "acquire" /\ cur[u].op \in Accessors
    /\ ~IndexIsRegrouping(inner, heap)

\* Thread t is executing an operation on the container's state: it is past the
\* lock call of a mutator / of an accessor and has not returned.
ExecutingMutator(t) == pc[t] \notin {"idle", "acquire"} /\ cur[t].op \in Mutators

ExecutingAccessor(t) ==
  \/ pc[t] \notin {"idle", "acquire"} /\ cur[t].op \in Accessors
  \/ pc[t] = "acquire" /\ cur[t].outer # ""

\* C7: while a thread executes a mutator no other thread executes a mutator or an
\* accessor on the same state (accessors may overlap with one another).
C7_WriterExcludesAll ==
  \A t, u \in Threads :
    (t # u /\ ExecutingMutator(t)) => ~(ExecutingMutator(u) \/ ExecutingAccessor(u))

\* C7 witness: a mutator is half way through its writes while another thread,
\* a reader, waits for the lock.
C7_Witness ==
  \E t, u \in Threads :
    /\ ExecutingMutator(t) /\ pc[t] = "sub_id"
    /\ pc[u] = "acquire" /\ cur[u].op \in Accessors

\* Accessors do overlap: two threads hold the shared lock at once.
ReadersOverlap == \A t \in Threads : Reading(t) /\ ExecutingAccessor(t)

\* C8 (as claimed): every call of a container operation returns, whatever the
\* callback given to with_values or with_value_array does.
C8_EveryCallReturns ==
  \A t \in Threads : (pc[t] # "idle") ~> (pc[t] = "idle")

\* The add_value calls made and not refused: the values in the container and the
\* calls that have not pushed theirs yet.
Attempts ==
  Len(inner.values)
  + Cardinality({t \in Threads : cur[t].op = "add_value"
                                 /\ pc[t] \in {"acquire", "locked", "push"}})

\* C28: threads adding concurrently to one container, the attempts within the
\* ceiling: no add_value returns the error, and the count of values is the number
\* of adds made: a step changes it only by the push of an add, once per add, so
\* that when every call has returned the count is the number of calls.
C28_ConcurrentAddsAllCounted ==
  [][Attempts <= inner.max_values =>
       /\ \A t \in Threads : ~(pc[t] = "locked" /\ pc'[t] = "idle")
       /\ Attempts' = Attempts
                      + Cardinality({t \in Threads : pc[t] = "idle" /\ pc'[t] = "acquire"})
       /\ \A t \in Threads : pc[t] = "push" /\ pc'[t] = "index" =>
            inner'.values = Append(inner.values, cur[t].ptr)]_vars

\* Two threads are adding at once: one has pushed its value, after two others,
\* and the other waits for the lock.
C28_Witness ==
  /\ cur[1].op = "add_value" /\ pc[1] = "index"
  /\ cur[2].op = "add_value" /\ pc[2] = "acquire"
  /\ Len(inner.values) = 2
  /\ ~limit_reached(inner)

\* ---------------------------------------------------------------- values of every kind

\* enum ValueType (#[repr(u8)]): the discriminant of each kind.
ValueType ==
  [null |-> 0, bool |-> 1, short |-> 2, ushort |-> 3, int |-> 4, uint |-> 5,
   long |-> 6, ulong |-> 7, llong |-> 8, ullong |-> 9, float |-> 10, double |-> 11,
   bytes |-> 12, string |-> 13, container |-> 14, array |-> 15]

ValueTypes == DOMAIN ValueType

\* Result<T>: Ok(x) and Err(_).
Ok(x) == [ok |-> TRUE, val |-> x]
Err == [ok |-> FALSE]

\* A value object as its constructor builds it (BoolValue::new, ShortValue::new, ...,
\* ContainerValue::new, ArrayValue::new). The data of a FloatValue or a DoubleValue
\* is a floating-point number as the section on numbers defines it.
Value(name, vtype, data, children) ==
  [name |-> name, vtype |-> vtype, data |-> data, children |-> children]

\* The value objects the callers of the codecs hold: one of each kind but the
\* unsigned 16 and 32 bit ones; 10 is a ContainerValue with one child, 11 an
\* ArrayValue with two elements.
CodecHeap ==
  (1 :> Value("a", "int", 42, <<>>)) @@
  (2 :> Value("b", "bool", TRUE, <<>>)) @@
  (3 :> Value("s", "short", -7, <<>>)) @@
  (4 :> Value("t", "string", "hi", <<>>)) @@
  (5 :> Value("y", "bytes", <<72, 105>>, <<>>)) @@
  (6 :> Value("l", "long", 70000, <<>>)) @@
  (7 :> Value("k", "llong", -1, <<>>)) @@
  (8 :> Value("u", "ullong", 9, <<>>)) @@
  (9 :> Value("n", "null", 0, <<>>)) @@
  (10 :> Value("c", "container", 0, <<1>>)) @@
  (11 :> Value("r", "array", 0, <<1, 4>>))

\* Value::to_bool: BoolValue overrides the default, which is an error.
to_bool(v) == IF v.vtype = "bool" THEN Ok(v.data) ELSE Err

\* Value::to_short, to_ushort, to_uint: no value kind overrides the default
\* (ContainerValue overrides them with the same error).
to_short(v) == Err
to_ushort(v) == Err
to_uint(v) == Err

\* The largest i32, which is also the largest integer of the model.
I32Max == 2^30 + (2^30 - 1)

\* Value::to_int: the 32-bit and narrower kinds widen, the wider ones try_into.
to_int(v) ==
  CASE v.vtype \in {"short", "ushort", "int", "long"} -> Ok(v.data)
    [] v.vtype \in {"uint", "ulong", "llong", "ullong"} ->
         IF v.data >= -I32Max - 1 /\ v.data <= I32Max THEN Ok(v.data) ELSE Err
    [] OTHER -> Err

\* Value::to_long: every integer kind converts (ULLongValue by try_into, which no
\* integer of the model fails); ContainerValue returns its child count.
to_long(v) ==
  CASE v.vtype \in {"short", "ushort", "int", "uint", "long", "ulong", "llong",
                    "ullong"} -> Ok(v.data)
    [] v.vtype = "container" -> Ok(Len(v.children))
    [] OTHER -> Err

\* Value::to_ulong: only ContainerValue overrides the default.
to_ulong(v) == IF v.vtype = "container" THEN Ok(Len(v.children)) ELSE Err

\* ---------------------------------------------------------------- text

\* A String is a TLA+ string; Char(s, i) is its i-th character ("" past its ends).
Char(s, i) == IF i >= 1 /\ i <= Len(s) THEN SubSeq(s, i, i) ELSE ""

Chars(s) == {Char(s, i) : i \in 1..Len(s)}

\* The position of character c in the alphabet s (0: not in it).
IndexOf(c, s) ==
  IF \E i \in 1..Len(s) : Char(s, i) = c
    THEN CHOOSE i \in 1..Len(s) : Char(s, i) = c ELSE 0

DecDigits == "0123456789"
HexDigits == "0123456789abcdef"
HexDigitsUpper == "0123456789ABCDEF"

\* The decimal digits of a natural number.
RECURSIVE digits(_)
digits(n) ==
  IF n < 10 THEN Char(DecDigits, n + 1)
  ELSE digits(n \div 10) \o Char(DecDigits, (n % 10) + 1)

\* <integer>::to_string
int_to_string(n) == IF n < 0 THEN "-" \o digits(-n) ELSE digits(n)

\* The number a string of decimal digits denotes.
RECURSIVE digits_value(_, _)
digits_value(s, acc) ==
  IF s = "" THEN acc
  ELSE digits_value(Tail(s), 10 * acc + IndexOf(Head(s), DecDigits) - 1)

\* str::parse::<iN> and str::parse::<uN> for the range lo..hi: an optional sign
\* ("-" only where lo < 0), then one digit or more, then the range check. More
\* than nine digits denote no integer of the model.
parse_integer(s, lo, hi) ==
  LET body == IF s # "" /\ (Head(s) = "+" \/ (Head(s) = "-" /\ lo < 0))
                THEN Tail(s) ELSE s
      n == IF s # "" /\ Head(s) = "-" THEN -digits_value(body, 0)
           ELSE digits_value(body, 0)
  IN IF body = "" \/ Len(body) > 9 \/ ~(Chars(body) \subseteq Chars(DecDigits)) THEN Err
     ELSE IF n < lo \/ n > hi THEN Err
     ELSE Ok(n)

\* ---------------------------------------------------------------- binary encoding

\* The printable ASCII characters from the space (byte 32) to the underscore
\* (byte 95), and from a (byte 97) to the tilde (byte 126).
AsciiLow == " !\"#$%&'()*+,-./0123456789:;<=>?@ABCDEFGHIJKLMNOPQRSTUVWXYZ[\\]^_"

AsciiHigh == "abcdefghijklmnopqrstuvwxyz{|}~"

AsciiBytes == (32..95) \cup (97..126)

\* str::as_bytes
as_bytes(s) ==
  [i \in 1..Len(s) |->
     IF IndexOf(Char(s, i), AsciiLow) > 0 THEN IndexOf(Char(s, i), AsciiLow) + 31
     ELSE IndexOf(Char(s, i), AsciiHigh) + 96]

\* The String of a sequence of ASCII bytes.
RECURSIVE ascii_string(_)
ascii_string(bytes) ==
  IF bytes = <<>> THEN ""
  ELSE (IF Head(bytes) <= 95 THEN Char(AsciiLow, Head(bytes) - 31)
        ELSE Char(AsciiHigh, Head(bytes) - 96))
       \o ascii_string(Tail(bytes))

\* String::from_utf8, on printable ASCII bytes and on bytes from 248 on, which no
\* UTF-8 text contains.
from_utf8(bytes) ==
  CASE \A i \in 1..Len(bytes) : bytes[i] \in AsciiBytes -> Ok(ascii_string(bytes))
    [] \E i \in 1..Len(bytes) : bytes[i] >= 248 -> Err

\* <integer>::to_le_bytes: the len low bytes of n in two's complement.
RECURSIVE to_le_bytes(_, _)
to_le_bytes(n, len) ==
  IF len = 0 THEN <<>> ELSE <<n % 256>> \o to_le_bytes(n \div 256, len - 1)

\* u32::from_le_bytes(..) as usize; a length of 2^30 or more is 2^30, which is
\* beyond every buffer of the model.
u32_from_le_bytes(b) ==
  IF b[4] >= 64 THEN 2^30 ELSE b[1] + 256 * b[2] + 65536 * b[3] + 16777216 * b[4]

\* i32::from_le_bytes
i32_from_le_bytes(b) ==
  b[1] + 256 * b[2] + 65536 * b[3]
  + 16777216 * (IF b[4] >= 128 THEN b[4] - 256 ELSE b[4])

\* i64::from_le_bytes followed by the i32::try_from of LongValue::new: Ok when the
\* high four bytes extend the sign of the low four.
i32_try_from_i64_le_bytes(b) ==
  IF \/ b[4] < 128 /\ \A i \in 5..8 : b[i] = 0
     \/ b[4] >= 128 /\ \A i \in 5..8 : b[i] = 255
    THEN Ok(i32_from_le_bytes(b)) ELSE Err

\* [type:1][name_len:4][name][value_size:4][value], as the to_bytes of BoolValue,
\* IntValue, LongValue, StringValue, BytesValue and NullValue write it.
framed(type_id, name, value) ==
  <<type_id>> \o to_le_bytes(Len(name), 4) \o as_bytes(name)
  \o to_le_bytes(Len(value), 4) \o value

\* Value::to_bytes: BoolValue, IntValue, LongValue, StringValue, BytesValue and
\* NullValue write the framed format, the other integer kinds the bare value,
\* ContainerValue its child count as an i64, ArrayValue its count and its elements.
RECURSIVE to_bytes(_, _)
RECURSIVE elements_to_bytes(_, _)
elements_to_bytes(elements, h) ==
  IF elements = <<>> THEN <<>>
  ELSE to_bytes(h[Head(elements)], h) \o elements_to_bytes(Tail(elements), h)

to_bytes(v, h) ==
  CASE v.vtype = "bool" -> framed(ValueType["bool"], v.name, <<IF v.data THEN 1 ELSE 0>>)
    [] v.vtype \in {"int", "long"} ->
         framed(ValueType[v.vtype], v.name, to_le_bytes(v.data, 4))
    [] v.vtype = "string" -> framed(ValueType["string"], v.name, as_bytes(v.data))
    [] v.vtype = "bytes" -> framed(ValueType["bytes"], v.name, v.data)
    [] v.vtype = "null" -> framed(ValueType["null"], v.name, <<>>)
    [] v.vtype \in {"short", "ushort"} -> to_le_bytes(v.data, 2)
    [] v.vtype \in {"uint", "ulong"} -> to_le_bytes(v.data, 4)
    [] v.vtype \in {"llong", "ullong"} -> to_le_bytes(v.data, 8)
    [] v.vtype = "container" -> to_le_bytes(Len(v.children), 8)
    [] v.vtype = "array" ->
         to_le_bytes(Len(v.children), 4) \o elements_to_bytes(v.children, h)

\* array_value.rs: ArrayValue::to_binary_bytes
to_binary_bytes(v, h) ==
  <<ValueType["array"]>> \o to_le_bytes(Len(v.name), 4) \o as_bytes(v.name)
  \o to_le_bytes(4 + Len(elements_to_bytes(v.children, h)), 4)
  \o to_le_bytes(Len(v.children), 4)
  \o elements_to_bytes(v.children, h)

\* ---------------------------------------------------------------- wire protocol

\* wire_protocol.rs: value_type_to_cpp_name
value_type_to_cpp_name(vt) == vt \o "_value"

\* wire_protocol.rs: cpp_name_to_value_type (Err: None)
cpp_name_to_value_type(name) ==
  IF \E vt \in ValueTypes : name = vt \o "_value"
    THEN Ok(CHOOSE vt \in ValueTypes : name = vt \o "_value") ELSE Err

\* format!("{:02x}", b)
byte_to_hex(b) == Char(HexDigits, (b \div 16) + 1) \o Char(HexDigits, (b % 16) + 1)

\* wire_protocol.rs: bytes_to_hex
RECURSIVE bytes_to_hex(_)
bytes_to_hex(bytes) ==
  IF bytes = <<>> THEN "" ELSE byte_to_hex(Head(bytes)) \o bytes_to_hex(Tail(bytes))

\* The value of a hexadecimal digit of either case (-1: not a digit).
hex_digit(c) ==
  IF IndexOf(c, HexDigits) > 0 THEN IndexOf(c, HexDigits) - 1
  ELSE IF IndexOf(c, HexDigitsUpper) > 0 THEN IndexOf(c, HexDigitsUpper) - 1
  ELSE -1

\* u8::from_str_radix(pair, 16) on two characters: two digits, or "+" and a digit.
hex_pair(pair) ==
  LET hi == hex_digit(Char(pair, 1))
      lo == hex_digit(Char(pair, 2))
  IN IF lo < 0 THEN Err
     ELSE IF hi >= 0 THEN Ok(16 * hi + lo)
     ELSE IF Char(pair, 1) = "+" THEN Ok(lo)
     ELSE Err

\* wire_protocol.rs: hex_to_bytes
RECURSIVE hex_pairs(_)
hex_pairs(hex) ==
  IF hex = "" THEN Ok(<<>>)
  ELSE LET first == hex_pair(SubSeq(hex, 1, 2))
           rest == hex_pairs(SubSeq(hex, 3, Len(hex)))
       IN IF first.ok /\ rest.ok THEN Ok(<<first.val>> \o rest.val) ELSE Err

hex_to_bytes(hex) == IF Len(hex) % 2 # 0 THEN Err ELSE hex_pairs(hex)

\* r.map(|n| n.to_string())
map_to_string(r) == IF r.ok THEN Ok(int_to_string(r.val)) ELSE Err

\* wire_protocol.rs: serialize_value_cpp, the data_str of the match; a `?` on a
\* failed conversion is the Err.
wire_data_str(v, h) ==
  CASE v.vtype = "bool" ->
         IF to_bool(v).ok THEN Ok(IF to_bool(v).val THEN "true" ELSE "false") ELSE Err
    [] v.vtype = "short" -> map_to_string(to_short(v))
    [] v.vtype = "ushort" -> map_to_string(to_ushort(v))
    [] v.vtype = "int" -> map_to_string(to_int(v))
    [] v.vtype = "uint" -> map_to_string(to_uint(v))
    [] v.vtype \in {"long", "llong"} -> map_to_string(to_long(v))
    [] v.vtype \in {"ulong", "ullong"} -> map_to_string(to_ulong(v))
    [] v.vtype = "string" -> Ok(v.data)
    [] v.vtype = "bytes" -> Ok(bytes_to_hex(to_bytes(v, h)))
    [] v.vtype \in {"container", "array"} -> Ok("0")
    [] v.vtype = "null" -> Ok("")

\* wire_protocol.rs: serialize_value_cpp
serialize_value_cpp(v, h) ==
  IF wire_data_str(v, h).ok
    THEN Ok("[" \o v.name \o "," \o value_type_to_cpp_name(v.vtype) \o "," \o
            wire_data_str(v, h).val \o "];")
    ELSE Err

\* wire_protocol.rs: serialize_cpp_wire, the loop of with_values:
\* if let Ok(serialized) = serialize_value_cpp(value) { result.push_str(..) }
RECURSIVE wire_items(_, _)
wire_items(values, h) ==
  IF values = <<>> THEN Ok("")
  ELSE LET first == serialize_value_cpp(h[Head(values)], h)
           rest == wire_items(Tail(values), h)
       IN Ok((IF first.ok THEN first.val ELSE "") \o rest.val)

\* The header section with the routing fields whatever the message type.
wire_header_always_routed(in) ==
  "@header={{"
  \o (IF in.target_id # "" \/ in.target_sub_id # ""
        THEN "[1," \o in.target_id \o "];[2," \o in.target_sub_id \o "];" ELSE "")
  \o (IF in.source_id # "" \/ in.source_sub_id # ""
        THEN "[3," \o in.source_id \o "];[4," \o in.source_sub_id \o "];" ELSE "")
  \o "[5," \o in.message_type \o "];[6," \o in.version \o "];"
  \o "}};"

\* wire_protocol.rs: serialize_cpp_wire, the header section
wire_header(in) ==
  "@header={{"
  \o (IF in.message_type # "data_container"
        THEN (IF in.target_id # "" \/ in.target_sub_id # ""
                THEN "[1," \o in.target_id \o "];[2," \o in.target_sub_id \o "];"
                ELSE "")
             \o (IF in.source_id # "" \/ in.source_sub_id # ""
                   THEN "[3," \o in.source_id \o "];[4," \o in.source_sub_id \o "];"
                   ELSE "")
        ELSE "")
  \o "[5," \o in.message_type \o "];[6," \o in.version \o "];"
  \o "}};"

\* wire_protocol.rs: serialize_cpp_wire
serialize_cpp_wire(in, h) ==
  IF wire_items(in.values, h).ok
    THEN Ok(wire_header(in) \o "@data={{" \o wire_items(in.values, h).val \o "}};")
    ELSE Err

\* The character classes of the regex crate, over the ASCII characters.
WordChars == Chars("abcdefghijklmnopqrstuvwxyzABCDEFGHIJKLMNOPQRSTUVWXYZ0123456789_")
SpaceChars == {" ", "\t", "\r", "\f"}
DigitChars == Chars(DecDigits)

\* The end of the longest run of characters of class cs that starts at i: the
\* first position from i on whose character is not in cs.
span(s, i, cs) ==
  CHOOSE j \in i..(Len(s) + 1) :
    /\ Char(s, j) \notin cs
    /\ \A k \in i..(j - 1) : Char(s, k) \in cs

\* The first position from i on where pat occurs in s (0: nowhere).
find(s, pat, i) ==
  LET at == {j \in i..(Len(s) - Len(pat) + 1) : SubSeq(s, j, j + Len(pat) - 1) = pat}
  IN IF at = {} THEN 0 ELSE CHOOSE j \in at : \A k \in at : j <= k

\* wire_data.replace("\r\n", "").replace('\n', "") on the characters lo..hi of s:
\* what goes is every "\n" and every "\r" that a "\n" follows.
RECURSIVE without_newlines(_, _, _)
without_newlines(s, lo, hi) ==
  IF lo > hi THEN ""
  ELSE IF lo = hi
    THEN (IF Char(s, lo) = "\n" \/ (Char(s, lo) = "\r" /\ Char(s, lo + 1) = "\n")
            THEN "" ELSE Char(s, lo))
  ELSE without_newlines(s, lo, (lo + hi) \div 2)
       \o without_newlines(s, ((lo + hi) \div 2) + 1, hi)

remove_newlines(s) == without_newlines(s, 1, Len(s))

\* str::trim
trim(s) ==
  LET keep == {i \in 1..Len(s) : Char(s, i) \notin (SpaceChars \cup {"\n"})}
  IN IF keep = {} THEN ""
     ELSE SubSeq(s, CHOOSE i \in keep : \A k \in keep : i <= k,
                    CHOOSE i \in keep : \A k \in keep : k <= i)

\* \s*\}\}?; matches at p
section_closes(s, p) ==
  LET q == span(s, p, SpaceChars)
  IN /\ Char(s, q) = "}"
     /\ \/ Char(s, q + 1) = ";"
        \/ Char(s, q + 1) = "}" /\ Char(s, q + 2) = ";"

\* Where the group of <tag>\s*\{\{?\s*(.*?)\s*\}\}?; starts when the tag is at i.
section_start(s, tag, i) ==
  LET b == span(s, i + Len(tag), SpaceChars)
  IN span(s, IF Char(s, b + 1) = "{" THEN b + 2 ELSE b + 1, SpaceChars)

\* The regex <tag>\s*\{\{?\s*(.*?)\s*\}\}?; matches with the tag at i.
section_matches(s, tag, i) ==
  /\ SubSeq(s, i, i + Len(tag) - 1) = tag
  /\ Char(s, span(s, i + Len(tag), SpaceChars)) = "{"
  /\ \E p \in section_start(s, tag, i)..Len(s) : section_closes(s, p)

\* header_regex.captures / data_regex.captures: group 1 of the leftmost match
\* (Err: no match).
section(s, tag) ==
  LET at == {i \in 1..(Len(s) - Len(tag) + 1) : section_matches(s, tag, i)}
      i == CHOOSE i \in at : \A k \in at : i <= k
      d == section_start(s, tag, i)
      ends == {p \in d..Len(s) : section_closes(s, p)}
  IN IF at = {} THEN Err
     ELSE Ok(SubSeq(s, d, (CHOOSE p \in ends : \A k \in ends : p <= k) - 1))

\* pair_regex \[(\d+),(.*?)\]; matched at j: the groups and the end of the match.
pair_at(s, j) ==
  LET k == span(s, j + 1, DigitChars)
      e == find(s, "];", k + 1)
  IN IF Char(s, j) = "[" /\ k > j + 1 /\ Char(s, k) = "," /\ e > 0
       THEN Ok([id |-> SubSeq(s, j + 1, k - 1), value |-> SubSeq(s, k + 1, e - 1),
                end |-> e + 2])
       ELSE Err

\* item_regex \[(\w+),\s*(\w+),\s*(.*?)\]; matched at j
item_at(s, j) ==
  LET n == span(s, j + 1, WordChars)
      t == span(s, n + 1, SpaceChars)
      u == span(s, t, WordChars)
      d == span(s, u + 1, SpaceChars)
      e == find(s, "];", d)
  IN IF /\ Char(s, j) = "[" /\ n > j + 1 /\ Char(s, n) = ","
        /\ u > t /\ Char(s, u) = "," /\ e > 0
       THEN Ok([name |-> SubSeq(s, j + 1, n - 1), type_name |-> SubSeq(s, t, u - 1),
                data_str |-> SubSeq(s, d, e - 1), end |-> e + 2])
       ELSE Err

\* captures_iter: the leftmost match from i on (Err: none).
next_pair(s, i) ==
  LET at == {j \in i..Len(s) : pair_at(s, j).ok}
  IN IF at = {} THEN Err ELSE pair_at(s, CHOOSE j \in at : \A k \in at : j <= k)

next_item(s, i) ==
  LET at == {j \in i..Len(s) : item_at(s, j).ok}
  IN IF at = {} THEN Err ELSE item_at(s, CHOOSE j \in at : \A k \in at : j <= k)

\* The header variables of deserialize_cpp_wire before any pair is read.
WireHeaderDefaults ==
  [source_id |-> "", source_sub_id |-> "", target_id |-> "", target_sub_id |-> "",
   message_type |-> "data_container", version |-> "1.0.0.0"]

\* wire_protocol.rs: deserialize_cpp_wire, the loop over the header pairs: the id
\* is parsed as a u8 (`?`), the value is trimmed, an id outside 1..6 changes nothing.
RECURSIVE wire_header_pairs(_, _, _)
wire_header_pairs(s, i, hd) ==
  LET m == next_pair(s, i)
      id == parse_integer(m.val.id, 0, 255)
      value == trim(m.val.value)
  IN IF ~m.ok THEN Ok(hd)
     ELSE IF ~id.ok THEN Err
     ELSE wire_header_pairs(s, m.val.end,
            CASE id.val = 1 -> [hd EXCEPT !.target_id = value]
              [] id.val = 2 -> [hd EXCEPT !.target_sub_id = value]
              [] id.val = 3 -> [hd EXCEPT !.source_id = value]
              [] id.val = 4 -> [hd EXCEPT !.source_sub_id = value]
              [] id.val = 5 -> [hd EXCEPT !.message_type = value]
              [] id.val = 6 -> [hd EXCEPT !.version = value]
              [] OTHER -> hd)

\* r.map(|n| <Kind>Value::new(name, n))
map_to_value(r, name, vtype) == IF r.ok THEN Ok(Value(name, vtype, r.val, <<>>)) ELSE Err

\* wire_protocol.rs: deserialize_cpp_wire, the match that parses one item.
\* LongValue::new and ULongValue::new check the 32-bit range.
wire_parse_value(name, value_type, data_str) ==
  CASE value_type = "bool" -> Ok(Value(name, "bool", data_str = "true", <<>>))
    [] value_type = "short" ->
         map_to_value(parse_integer(data_str, -(2^15), 2^15 - 1), name, "short")
    [] value_type = "ushort" ->
         map_to_value(parse_integer(data_str, 0, 2^16 - 1), name, "ushort")
    [] value_type \in {"int", "long", "llong"} ->
         map_to_value(parse_integer(data_str, -I32Max - 1, I32Max), name, value_type)
    [] value_type \in {"uint", "ulong", "ullong"} ->
         map_to_value(parse_integer(data_str, 0, I32Max), name, value_type)
    [] value_type = "string" -> Ok(Value(name, "string", data_str, <<>>))
    [] value_type = "bytes" -> map_to_value(hex_to_bytes(data_str), name, "bytes")
    [] value_type \in {"container", "array", "null"} -> Err

\* What a parser returns: Ok(container), with the heap that holds its values, or Err.
Parsed(in, h) == [ok |-> TRUE, inner |-> in, heap |-> h]

\* wire_protocol.rs: deserialize_cpp_wire, the loop over the data items: an unknown
\* type name, a value that does not parse and a refused add_value each return Err.
RECURSIVE wire_data_items(_, _, _, _)
wire_data_items(s, i, in, h) ==
  LET m == next_item(s, i)
      value_type == cpp_name_to_value_type(m.val.type_name)
      parsed_value == wire_parse_value(m.val.name, value_type.val, m.val.data_str)
      added == add_value(in, NextPtr(h), m.val.name)
  IN IF ~m.ok THEN Parsed(in, h)
     ELSE IF ~value_type.ok THEN Err
     ELSE IF ~parsed_value.ok THEN Err
     ELSE IF ~added.ok THEN Err
     ELSE wire_data_items(s, m.val.end, added.inner, h @@ (NextPtr(h) :> parsed_value.val))

\* wire_protocol.rs: deserialize_cpp_wire. The version a header carries is read
\* and dropped: the container keeps the version of ValueContainer::new.
deserialize_cpp_wire(wire_data, h) ==
  LET clean_data == remove_newlines(wire_data)
      header_match == section(clean_data, "@header=")
      hd == IF header_match.ok
              THEN wire_header_pairs(header_match.val, 1, WireHeaderDefaults)
              ELSE Ok(WireHeaderDefaults)
      container == set_message_type(
                     set_target(set_source(new, hd.val.source_id, hd.val.source_sub_id),
                                hd.val.target_id, hd.val.target_sub_id),
                     hd.val.message_type)
      data_match == section(clean_data, "@data=")
  IN IF ~hd.ok THEN Err
     ELSE IF ~data_match.ok THEN Parsed(container, h)
     ELSE wire_data_items(data_match.val, 1, container, h)

\* ---------------------------------------------------------------- JSON

\* serde_json::Value. A JSON text is modelled by the Value serde_json::from_str
\* parses it to, and Text(s) is a text s that from_str rejects; numbers are
\* integers, the fields of an object are a function from its keys.
JNull == [j |-> "null"]
JBool(b) == [j |-> "bool", b |-> b]
JNumber(n) == [j |-> "number", n |-> n]
JString(s) == [j |-> "string", s |-> s]
JArray(items) == [j |-> "array", items |-> items]
JObject(fields) == [j |-> "object", fields |-> fields]
Text(s) == [j |-> "invalid", text |-> s]
NotJson == Text("{")

\* Value::get(key), as_str, as_bool, as_i64, as_u64, as_array, as_object (Err: None)
get(v, key) == IF v.j = "object" /\ key \in DOMAIN v.fields THEN Ok(v.fields[key]) ELSE Err
as_str(v) == IF v.j = "string" THEN Ok(v.s) ELSE Err
as_bool(v) == IF v.j = "bool" THEN Ok(v.b) ELSE Err
as_i64(v) == IF v.j = "number" THEN Ok(v.n) ELSE Err
as_u64(v) == IF v.j = "number" /\ v.n >= 0 THEN Ok(v.n) ELSE Err
as_array(v) == IF v.j = "array" THEN Ok(v.items) ELSE Err
as_object(v) == IF v.j = "object" THEN Ok(v.fields) ELSE Err

\* Option::unwrap_or
unwrap_or(r, default) == IF r.ok THEN r.val ELSE default

\* v.get(key).and_then(|v| v.as_str()).unwrap_or(default)
get_str_or(v, key, default) ==
  IF get(v, key).ok THEN unwrap_or(as_str(get(v, key).val), default) ELSE default

\* `n as i16`, `n as u16`: the low 16 bits. `as i32` and `as u32` leave every
\* integer of the model as it is.
as_i16(n) == ((n + 2^15) % 2^16) - 2^15
as_u16(n) == n % 2^16

\* The alphabet of base64::engine::general_purpose::STANDARD.
Base64Chars == "ABCDEFGHIJKLMNOPQRSTUVWXYZabcdefghijklmnopqrstuvwxyz0123456789+/"

b64(n) == Char(Base64Chars, n + 1)

\* BASE64.encode: three bytes to four characters, the last group padded with "=".
RECURSIVE base64_encode(_)
base64_encode(bytes) ==
  IF bytes = <<>> THEN ""
  ELSE IF Len(bytes) = 1
    THEN b64(bytes[1] \div 4) \o b64((bytes[1] % 4) * 16) \o "=="
  ELSE IF Len(bytes) = 2
    THEN b64(bytes[1] \div 4) \o b64((bytes[1] % 4) * 16 + bytes[2] \div 16)
         \o b64((bytes[2] % 16) * 4) \o "="
  ELSE b64(bytes[1] \div 4) \o b64((bytes[1] % 4) * 16 + bytes[2] \div 16)
       \o b64((bytes[2] % 16) * 4 + bytes[3] \div 64) \o b64(bytes[3] % 64)
       \o base64_encode(SubSeq(bytes, 4, Len(bytes)))

\* The six bits of a base64 character (-1: not of the alphabet).
b64_value(c) == IndexOf(c, Base64Chars) - 1

\* BASE64.decode of one group of four characters; padding is accepted in the last
\* group only, and the bits it leaves unused must be zero.
base64_group(g, is_last) ==
  LET a == b64_value(Char(g, 1))
      b == b64_value(Char(g, 2))
      c == b64_value(Char(g, 3))
      d == b64_value(Char(g, 4))
  IN IF a < 0 \/ b < 0 THEN Err
     ELSE IF c >= 0 /\ d >= 0
       THEN Ok(<<a * 4 + b \div 16, (b % 16) * 16 + c \div 4, (c % 4) * 64 + d>>)
     ELSE IF ~is_last THEN Err
     ELSE IF c >= 0 /\ Char(g, 4) = "=" /\ c % 4 = 0
       THEN Ok(<<a * 4 + b \div 16, (b % 16) * 16 + c \div 4>>)
     ELSE IF Char(g, 3) = "=" /\ Char(g, 4) = "=" /\ b % 16 = 0
       THEN Ok(<<a * 4 + b \div 16>>)
     ELSE Err

\* BASE64.decode
RECURSIVE base64_groups(_)
base64_groups(s) ==
  IF s = "" THEN Ok(<<>>)
  ELSE LET first == base64_group(SubSeq(s, 1, 4), Len(s) = 4)
           rest == base64_groups(SubSeq(s, 5, Len(s)))
       IN IF first.ok /\ rest.ok THEN Ok(first.val \o rest.val) ELSE Err

base64_decode(s) == IF Len(s) % 4 # 0 THEN Err ELSE base64_groups(s)

\* json_v2_adapter.rs: type_name_from_value_type; the kinds of the model bear the
\* type names of the JSON formats.
type_name_from_value_type(vt) == vt

\* json_v2_adapter.rs: value_type_from_name (Err: None)
value_type_from_name(name) == IF name \in ValueTypes THEN Ok(name) ELSE Err

\* json_v2_adapter.rs: value_to_v2_dict
RECURSIVE value_to_v2_dict(_, _)
value_to_v2_dict(v, h) ==
  LET obj == ("name" :> JString(v.name)) @@ ("type" :> JNumber(ValueType[v.vtype]))
             @@ ("type_name" :> JString(type_name_from_value_type(v.vtype)))
      elements == [i \in 1..Len(v.children) |-> value_to_v2_dict(h[v.children[i]], h)]
  IN JObject(
       CASE v.vtype = "bool" -> obj @@ ("data" :> JBool(unwrap_or(to_bool(v), FALSE)))
         [] v.vtype = "short" -> obj @@ ("data" :> JNumber(unwrap_or(to_short(v), 0)))
         [] v.vtype = "ushort" -> obj @@ ("data" :> JNumber(unwrap_or(to_ushort(v), 0)))
         [] v.vtype = "int" -> obj @@ ("data" :> JNumber(unwrap_or(to_int(v), 0)))
         [] v.vtype = "uint" -> obj @@ ("data" :> JNumber(unwrap_or(to_uint(v), 0)))
         [] v.vtype \in {"long", "llong"} ->
              obj @@ ("data" :> JNumber(unwrap_or(to_long(v), 0)))
         [] v.vtype \in {"ulong", "ullong"} ->
              obj @@ ("data" :> JNumber(unwrap_or(to_ulong(v), 0)))
         [] v.vtype = "string" -> obj @@ ("data" :> JString(v.data))
         [] v.vtype = "bytes" ->
              obj @@ ("data" :> JString(base64_encode(v.data)))
                  @@ ("encoding" :> JString("base64"))
         [] v.vtype = "container" ->
              obj @@ ("data" :> JArray(elements))
                  @@ ("child_count" :> JNumber(Len(v.children)))
         [] v.vtype = "array" ->
              obj @@ ("data" :> JArray(elements))
                  @@ ("element_count" :> JNumber(Len(v.children)))
         [] v.vtype = "null" -> obj @@ ("data" :> JNull))

\* json_v2_adapter.rs: to_v2_json
to_v2_json(in, h) ==
  Ok(JObject("container" :> JObject(
       ("version" :> JString("2.0"))
       @@ ("metadata" :> JObject(
             ("message_type" :> JString(in.message_type))
             @@ ("protocol_version" :> JString(in.version))
             @@ ("source" :> JObject(("id" :> JString(in.source_id))
                                     @@ ("sub_id" :> JString(in.source_sub_id))))
             @@ ("target" :> JObject(("id" :> JString(in.target_id))
                                     @@ ("sub_id" :> JString(in.target_sub_id))))))
       @@ ("values" :> JArray([i \in 1..Len(in.values) |->
                                 value_to_v2_dict(h[in.values[i]], h)])))))

\* primitive_values.rs: LongValue::new: the value must be of the 32 bits of the
\* C++ long.
LongValue(name, value) ==
  IF value >= -I32Max - 1 /\ value <= I32Max THEN Ok(Value(name, "long", value, <<>>))
  ELSE Err

\* The match on the type id that v2_dict_to_value and cpp_value_to_value share:
\* 0 => Null, ..., 11 => Double, 12 => String, 13 => Bytes, 14 => Container,
\* 15 => Array (Err: the `_` arm).
json_type_of_id(type_id) ==
  IF type_id <= 15
    THEN Ok(<<"null", "bool", "short", "ushort", "int", "uint", "long", "ulong", "llong",
              "ullong", "float", "double", "string", "bytes", "container", "array">>[
              type_id + 1])
    ELSE Err

\* Some(Arc::new(value)): the value is a new object of the heap.
Allocated(v, h) == [ok |-> TRUE, heap |-> h @@ (NextPtr(h) :> v), ptr |-> NextPtr(h)]

\* json_v2_adapter.rs: v2_dict_to_value, and its loops over the children of a
\* Container and the elements of an Array, which skip what does not convert.
RECURSIVE v2_dict_to_value(_, _)
RECURSIVE v2_dicts_to_values(_, _, _)
v2_dicts_to_values(items, h, ptrs) ==
  LET push(child) ==
        IF child.ok
          THEN v2_dicts_to_values(Tail(items), child.heap, Append(ptrs, child.ptr))
          ELSE v2_dicts_to_values(Tail(items), h, ptrs)
  IN IF items = <<>> THEN [heap |-> h, ptrs |-> ptrs]
     ELSE push(v2_dict_to_value(Head(items), h))

v2_dict_to_value(value_data, h) ==
  LET name == IF get(value_data, "name").ok THEN as_str(get(value_data, "name").val) ELSE Err
      type_id == IF get(value_data, "type").ok THEN as_u64(get(value_data, "type").val)
                 ELSE Err
      by_id == json_type_of_id(type_id.val % 2^8)
      type_name == IF get(value_data, "type_name").ok
                     THEN as_str(get(value_data, "type_name").val) ELSE Err
      value_type == IF by_id.ok THEN by_id
                    ELSE IF type_name.ok THEN value_type_from_name(type_name.val)
                    ELSE Err
      data == get(value_data, "data")
      nested == IF data.ok /\ as_array(data.val).ok
                  THEN v2_dicts_to_values(as_array(data.val).val, h, <<>>)
                  ELSE [heap |-> h, ptrs |-> <<>>]
      vt == value_type.val
  IN IF ~name.ok \/ ~type_id.ok \/ ~value_type.ok THEN Err
     ELSE IF vt = "null" THEN Allocated(Value(name.val, "container", 0, <<>>), h)
     ELSE IF vt \in {"container", "array"}
       THEN Allocated(Value(name.val, vt, 0, nested.ptrs), nested.heap)
     ELSE IF ~data.ok THEN Err
     ELSE CASE vt = "bool" ->
                 Allocated(Value(name.val, vt, unwrap_or(as_bool(data.val), FALSE), <<>>), h)
            [] vt = "short" ->
                 Allocated(Value(name.val, vt, as_i16(unwrap_or(as_i64(data.val), 0)), <<>>), h)
            [] vt = "ushort" ->
                 Allocated(Value(name.val, vt, as_u16(unwrap_or(as_u64(data.val), 0)), <<>>), h)
            [] vt \in {"int", "llong"} ->
                 Allocated(Value(name.val, vt, unwrap_or(as_i64(data.val), 0), <<>>), h)
            [] vt = "long" ->
                 IF LongValue(name.val, unwrap_or(as_i64(data.val), 0)).ok
                   THEN Allocated(LongValue(name.val, unwrap_or(as_i64(data.val), 0)).val, h)
                   ELSE Err
            [] vt \in {"uint", "ulong", "ullong"} ->
                 Allocated(Value(name.val, vt, unwrap_or(as_u64(data.val), 0), <<>>), h)
            [] vt = "string" ->
                 Allocated(Value(name.val, vt, unwrap_or(as_str(data.val), ""), <<>>), h)
            [] vt = "bytes" ->
                 IF get_str_or(value_data, "encoding", "base64") = "base64"
                   THEN Allocated(Value(name.val, vt,
                          unwrap_or(base64_decode(unwrap_or(as_str(data.val), "")), <<>>),
                          <<>>), h)
                   ELSE Allocated(Value(name.val, vt,
                          as_bytes(unwrap_or(as_str(data.val), "")), <<>>), h)

\* The loops of from_v2_json and from_python_json over the values array: a value
\* that does not convert is skipped, a refused add_value returns Err.
RECURSIVE json_add_values(_, _, _)
json_add_values(items, in, h) ==
  LET add(value) ==
        LET push(added) ==
              IF ~added.ok THEN Err
              ELSE json_add_values(Tail(items), added.inner, value.heap)
        IN IF ~value.ok THEN json_add_values(Tail(items), in, h)
           ELSE push(add_value(in, value.ptr, value.heap[value.ptr].name))
  IN IF items = <<>> THEN Parsed(in, h)
     ELSE add(v2_dict_to_value(Head(items), h))

\* json_v2_adapter.rs: from_v2_json
from_v2_json(data, h) ==
  LET container_data == get(data, "container").val
      metadata == unwrap_or(get(container_data, "metadata"), JNull)
      source == unwrap_or(get(metadata, "source"), JNull)
      target == unwrap_or(get(metadata, "target"), JNull)
      container ==
        set_message_type(
          set_target(set_source(new, get_str_or(source, "id", ""),
                                get_str_or(source, "sub_id", "")),
                     get_str_or(target, "id", ""), get_str_or(target, "sub_id", "")),
          get_str_or(metadata, "message_type", ""))
      values_array == IF get(container_data, "values").ok
                        THEN as_array(get(container_data, "values").val) ELSE Err
  IN IF data.j = "invalid" THEN Err
     ELSE IF ~get(data, "container").ok THEN Err
     ELSE IF get_str_or(container_data, "version", "1.0") # "2.0" THEN Err
     ELSE IF values_array.ok THEN json_add_values(values_array.val, container, h)
     ELSE Parsed(container, h)

\* Value::to_string of each kind; of an array it is ArrayValue::serialize_text.
RECURSIVE to_string(_, _)
RECURSIVE elements_to_string(_, _)
elements_to_string(elements, h) ==
  IF elements = <<>> THEN ""
  ELSE to_string(h[Head(elements)], h) \o elements_to_string(Tail(elements), h)

to_string(v, h) ==
  CASE v.vtype = "bool" -> IF v.data THEN "true" ELSE "false"
    [] v.vtype \in {"short", "ushort", "int", "uint", "long", "ulong", "llong", "ullong"} ->
         int_to_string(v.data)
    [] v.vtype = "string" -> v.data
    [] v.vtype = "bytes" -> "<" \o int_to_string(Len(v.data)) \o " bytes>"
    [] v.vtype = "null" -> "null"
    [] v.vtype = "container" ->
         "[Container '" \o v.name \o "' with " \o int_to_string(Len(v.children))
         \o " children]"
    [] v.vtype = "array" ->
         "[" \o v.name \o "," \o int_to_string(ValueType["array"]) \o ","
         \o int_to_string(Len(v.children)) \o "];" \o elements_to_string(v.children, h)

\* json_v2_adapter.rs: value_to_string_data
value_to_string_data(v, h) ==
  CASE v.vtype = "bool" -> IF unwrap_or(to_bool(v), FALSE) THEN "true" ELSE "false"
    [] v.vtype = "bytes" -> base64_encode(to_bytes(v, h))
    [] OTHER -> to_string(v, h)

\* json_v2_adapter.rs: to_cpp_json, the loop: values_obj.insert(name, {type, data})
\* replaces the entry an earlier value of the same name made.
RECURSIVE cpp_values_obj(_, _)
cpp_values_obj(values, h) ==
  IF values = <<>> THEN <<>>
  ELSE LET value == h[values[Len(values)]]
       IN (value.name :> JObject(("type" :> JNumber(ValueType[value.vtype]))
                                 @@ ("data" :> JString(value_to_string_data(value, h)))))
          @@ cpp_values_obj(SubSeq(values, 1, Len(values) - 1), h)

\* json_v2_adapter.rs: to_cpp_json
to_cpp_json(in, h) ==
  Ok(JObject(
       ("header" :> JObject(
          ("message_type" :> JString(in.message_type))
          @@ ("version" :> JString(in.version))
          @@ ("source_id" :> JString(in.source_id))
          @@ ("source_sub_id" :> JString(in.source_sub_id))
          @@ ("target_id" :> JString(in.target_id))
          @@ ("target_sub_id" :> JString(in.target_sub_id))))
       @@ ("values" :> JObject(cpp_values_obj(in.values, h)))))

\* str::to_lowercase, on ASCII
UpperChars == "ABCDEFGHIJKLMNOPQRSTUVWXYZ"
LowerChars == "abcdefghijklmnopqrstuvwxyz"

RECURSIVE to_lowercase(_)
to_lowercase(s) ==
  IF s = "" THEN ""
  ELSE (IF IndexOf(Head(s), UpperChars) > 0
          THEN Char(LowerChars, IndexOf(Head(s), UpperChars)) ELSE Head(s))
       \o to_lowercase(Tail(s))

\* json_v2_adapter.rs: cpp_value_to_value, the match on the type id: 0 => Null, ...,
\* 12 => String, 13 => Bytes, 14 => Container, 15 => Array (Err: `_ => return None`).
cpp_type_of_id(type_id) ==
  IF type_id <= 15
    THEN Ok(<<"null", "bool", "short", "ushort", "int", "uint", "long", "ulong", "llong",
              "ullong", "float", "double", "string", "bytes", "container", "array">>[
              type_id + 1])
    ELSE Err

\* json_v2_adapter.rs: cpp_value_to_value (Err: None)
cpp_value_to_value(name, value_data, h) ==
  LET type_id == IF get(value_data, "type").ok THEN as_u64(get(value_data, "type").val)
                 ELSE Err
      data == get(value_data, "data")
      data_str == unwrap_or(as_str(data.val), "")
      value_type == cpp_type_of_id(type_id.val % 2^8)
      vt == value_type.val
      value ==
        CASE vt = "bool" ->
               Ok(Value(name, vt, to_lowercase(data_str) = "true" \/ data_str = "1", <<>>))
          [] vt = "short" -> map_to_value(parse_integer(data_str, -(2^15), 2^15 - 1), name, vt)
          [] vt = "ushort" -> map_to_value(parse_integer(data_str, 0, 2^16 - 1), name, vt)
          [] vt \in {"int", "long", "llong"} ->
               map_to_value(parse_integer(data_str, -I32Max - 1, I32Max), name, vt)
          [] vt \in {"uint", "ulong", "ullong"} ->
               map_to_value(parse_integer(data_str, 0, I32Max), name, vt)
          [] vt = "string" -> Ok(Value(name, vt, data_str, <<>>))
          [] vt = "bytes" -> map_to_value(base64_decode(data_str), name, vt)
          [] vt \in {"container", "array", "null"} -> Err
  IN IF ~type_id.ok \/ ~data.ok \/ ~value_type.ok \/ ~value.ok THEN Err
     ELSE Allocated(value.val, h)

\* The order of the bytes of two texts: a < b
RECURSIVE str_less(_, _)
str_less(a, b) ==
  IF b = "" THEN FALSE
  ELSE IF a = "" THEN TRUE
  ELSE IF Head(a) # Head(b) THEN as_bytes(Head(a))[1] < as_bytes(Head(b))[1]
  ELSE str_less(Tail(a), Tail(b))

\* The keys of a serde_json Map in the order its iterator yields them: the order
\* of the BTreeMap that serde_json uses by default.
RECURSIVE sorted_keys(_)
sorted_keys(keys) ==
  IF keys = {} THEN <<>>
  ELSE LET least == CHOOSE k \in keys : \A other \in keys \ {k} : str_less(k, other)
       IN <<least>> \o sorted_keys(keys \ {least})

\* json_v2_adapter.rs: from_cpp_json, the loop over the values object: a value
\* that does not convert is skipped, a refused add_value returns Err.
RECURSIVE cpp_add_values(_, _, _, _)
cpp_add_values(names, values_obj, in, h) ==
  LET add(value) ==
        LET push(added) ==
              IF ~added.ok THEN Err
              ELSE cpp_add_values(Tail(names), values_obj, added.inner, value.heap)
        IN IF ~value.ok THEN cpp_add_values(Tail(names), values_obj, in, h)
           ELSE push(add_value(in, value.ptr, value.heap[value.ptr].name))
  IN IF names = <<>> THEN Parsed(in, h)
     ELSE add(cpp_value_to_value(Head(names), values_obj[Head(names)], h))

\* The header fields a flat document carries, read into a new container
\* (from_cpp_json reads them from its "header", from_python_json from the root).
flat_header(header) ==
  set_message_type(
    set_target(set_source(new, get_str_or(header, "source_id", ""),
                          get_str_or(header, "source_sub_id", "")),
               get_str_or(header, "target_id", ""), get_str_or(header, "target_sub_id", "")),
    get_str_or(header, "message_type", ""))

\* json_v2_adapter.rs: from_cpp_json
from_cpp_json(data, h) ==
  LET header == get(data, "header")
      values_obj == IF get(data, "values").ok THEN as_object(get(data, "values").val)
                    ELSE Err
  IN IF data.j = "invalid" THEN Err
     ELSE IF ~header.ok THEN Err
     ELSE IF values_obj.ok
       THEN cpp_add_values(sorted_keys(DOMAIN values_obj.val), values_obj.val,
                           flat_header(header.val), h)
     ELSE Parsed(flat_header(header.val), h)

\* json_v2_adapter.rs: to_python_json
to_python_json(in, h) ==
  Ok(JObject(
       ("message_type" :> JString(in.message_type))
       @@ ("version" :> JString(in.version))
       @@ ("source_id" :> JString(in.source_id))
       @@ ("source_sub_id" :> JString(in.source_sub_id))
       @@ ("target_id" :> JString(in.target_id))
       @@ ("target_sub_id" :> JString(in.target_sub_id))
       @@ ("values" :> JArray([i \in 1..Len(in.values) |->
                                 value_to_v2_dict(h[in.values[i]], h)]))))

\* json_v2_adapter.rs: from_python_json
from_python_json(data, h) ==
  LET values_array == IF get(data, "values").ok THEN as_array(get(data, "values").val)
                      ELSE Err
  IN IF data.j = "invalid" THEN Err
     ELSE IF values_array.ok THEN json_add_values(values_array.val, flat_header(data), h)
     ELSE Parsed(flat_header(data), h)

\* str::starts_with
starts_with(s, prefix) == Len(s) >= Len(prefix) /\ SubSeq(s, 1, Len(prefix)) = prefix

\* json_v2_adapter.rs: SerializationFormat
SerializationFormat == {"JsonV2", "CppJson", "PythonJson", "WireProtocol", "Unknown"}

\* detect_format with the test for the C++ format before the test for v2.0.
detect_format_cpp_first(data) ==
  IF data.j = "invalid"
    THEN IF starts_with(trim(data.text), "@header={") THEN "WireProtocol" ELSE "Unknown"
  ELSE IF get(data, "header").ok /\ get(data, "values").ok
          /\ as_object(get(data, "values").val).ok
    THEN "CppJson"
  ELSE IF /\ get(data, "container").ok
          /\ get(get(data, "container").val, "version").ok
          /\ as_str(get(get(data, "container").val, "version").val) = Ok("2.0")
    THEN "JsonV2"
  ELSE IF get(data, "message_type").ok /\ get(data, "values").ok
          /\ as_array(get(data, "values").val).ok
    THEN "PythonJson"
  ELSE "Unknown"

\* json_v2_adapter.rs: detect_format
detect_format(data) ==
  IF data.j = "invalid"
    THEN IF starts_with(trim(data.text), "@header={{")
            \/ starts_with(trim(data.text), "@header={")
           THEN "WireProtocol" ELSE "Unknown"
  ELSE IF /\ get(data, "container").ok
          /\ get(get(data, "container").val, "version").ok
          /\ as_str(get(get(data, "container").val, "version").val) = Ok("2.0")
    THEN "JsonV2"
  ELSE IF /\ get(data, "header").ok
          /\ get(data, "values").ok
          /\ as_object(get(data, "values").val).ok
    THEN "CppJson"
  ELSE IF /\ get(data, "message_type").ok
          /\ get(data, "values").ok
          /\ as_array(get(data, "values").val).ok
    THEN "PythonJson"
  ELSE "Unknown"

\* json_v2_adapter.rs: convert_format, the match on source_format: the container
\* parsed, or the Err that `?` returns.
convert_source(source_format, data, h) ==
  CASE source_format = "JsonV2" -> from_v2_json(data, h)
    [] source_format = "CppJson" -> from_cpp_json(data, h)
    [] source_format = "WireProtocol" -> deserialize_cpp_wire(data.text, h)
    [] source_format = "PythonJson" -> from_python_json(data, h)
    [] source_format = "Unknown" -> Err

\* json_v2_adapter.rs: convert_format, the match on target_format
convert_target(target_format, container) ==
  IF ~container.ok THEN Err
  ELSE CASE target_format = "JsonV2" -> to_v2_json(container.inner, container.heap)
         [] target_format = "CppJson" -> to_cpp_json(container.inner, container.heap)
         [] target_format = "WireProtocol" ->
              serialize_cpp_wire(container.inner, container.heap)
         [] target_format = "PythonJson" -> to_python_json(container.inner, container.heap)
         [] target_format = "Unknown" -> Err

\* json_v2_adapter.rs: convert_format: the container is parsed once, then written.
convert_format(data, target_format, h) ==
  CHOOSE r \in {convert_target(target_format, container) :
                  container \in {convert_source(detect_format(data), data, h)}} : TRUE

\* value_store.rs: value_type_from_u8: 12 => String, 13 => Bytes, `_ => Null`
value_type_from_u8(byte) ==
  IF byte <= 15
    THEN <<"null", "bool", "short", "ushort", "int", "uint", "long", "ulong", "llong",
           "ullong", "float", "double", "string", "bytes", "container", "array">>[byte + 1]
    ELSE "null"

\* ---------------------------------------------------------------- binary decoding

\* A panic of the thread: an index or a slice past the end of the buffer.
Panic == [ok |-> FALSE, panic |-> TRUE]

\* array_value.rs: deserialize_value, the match on the type byte (Err: the `_` arm)
element_type_of_byte(type_byte) ==
  IF type_byte <= 15
    THEN Ok(<<"null", "bool", "short", "ushort", "int", "uint", "long", "ulong", "llong",
              "ullong", "float", "double", "string", "bytes", "container", "array">>[
              type_byte + 1])
    ELSE Err

\* array_value.rs: deserialize_value: Ok with the value and the bytes read, Err, or
\* a panic. The name and the value are sliced at the lengths the buffer declares,
\* with no check against the length of the buffer.
deserialize_value(data) ==
  LET type_id == element_type_of_byte(data[1])
      name_len == u32_from_le_bytes(SubSeq(data, 2, 5))
      name == from_utf8(SubSeq(data, 6, 5 + name_len))
      offset == 5 + name_len + 4
      value_size == u32_from_le_bytes(SubSeq(data, offset - 3, offset))
      str_value == from_utf8(SubSeq(data, offset + 1, offset + value_size))
  IN IF data = <<>> THEN Err
     ELSE IF ~type_id.ok THEN Err
     ELSE IF type_id.val = "int"
       THEN IF Len(data) < 13 THEN Err
            ELSE IF 5 + name_len > Len(data) THEN Panic
            ELSE IF ~name.ok THEN Err
            ELSE IF offset + 4 > Len(data) THEN Panic
            ELSE Ok([value |-> Value(name.val, "int",
                                     i32_from_le_bytes(SubSeq(data, offset + 1, offset + 4)),
                                     <<>>),
                     bytes_read |-> offset + 4])
     ELSE IF type_id.val \in {"long", "llong"}
       THEN IF Len(data) < 17 THEN Err
            ELSE IF 5 + name_len > Len(data) THEN Panic
            ELSE IF ~name.ok THEN Err
            ELSE IF offset + 8 > Len(data) THEN Panic
            ELSE IF ~i32_try_from_i64_le_bytes(SubSeq(data, offset + 1, offset + 8)).ok
              THEN Err
            ELSE Ok([value |-> Value(name.val, "long",
                                     i32_try_from_i64_le_bytes(
                                       SubSeq(data, offset + 1, offset + 8)).val,
                                     <<>>),
                     bytes_read |-> offset + 8])
     ELSE IF type_id.val = "string"
       THEN IF Len(data) < 13 THEN Err
            ELSE IF 5 + name_len > Len(data) THEN Panic
            ELSE IF ~name.ok THEN Err
            ELSE IF offset > Len(data) THEN Panic
            ELSE IF offset + value_size > Len(data) THEN Panic
            ELSE IF ~str_value.ok THEN Err
            ELSE Ok([value |-> Value(name.val, "string", str_value.val, <<>>),
                     bytes_read |-> offset + value_size])
     ELSE Err

\* array_value.rs: ArrayValue::deserialize_binary, the loop over the elements
RECURSIVE deserialize_elements(_, _, _, _)
deserialize_elements(data, offset, count, elements) ==
  LET element == deserialize_value(SubSeq(data, offset + 1, Len(data)))
  IN IF count = 0 THEN Ok(elements)
     ELSE IF offset >= Len(data) THEN Err
     ELSE IF ~element.ok THEN element
     ELSE deserialize_elements(data, offset + element.val.bytes_read, count - 1,
                               Append(elements, element.val.value))

\* array_value.rs: ArrayValue::deserialize_binary: Ok with the name and the
\* elements of the array, Err, or a panic.
deserialize_binary(data) ==
  LET name_len == u32_from_le_bytes(SubSeq(data, 2, 5))
      name == from_utf8(SubSeq(data, 6, 5 + name_len))
      offset == 5 + name_len
      count == u32_from_le_bytes(SubSeq(data, offset + 5, offset + 8))
      elements == deserialize_elements(data, offset + 8, count, <<>>)
  IN IF Len(data) < 13 THEN Err
     ELSE IF data[1] # ValueType["array"] THEN Err
     ELSE IF offset > Len(data) THEN Err
     ELSE IF ~name.ok THEN Err
     ELSE IF offset + 4 > Len(data) THEN Err
     ELSE IF offset + 8 > Len(data) THEN Err
     ELSE IF ~elements.ok THEN elements
     ELSE Ok([name |-> name.val, elements |-> elements.val])

\* ---------------------------------------------------------------- calls of the codecs

\* The containers handed to the serializers: no value, one of the callers' value
\* objects, or the Int "a" and then one of them, added by add_value to a new
\* container, and containers whose header fields have been set: all of them, and
\* all but the message type.
CodecHeaders ==
  {new, set_message_type(set_target(set_source(new, "S", "s"), "T", ""), "m"),
   set_target(set_source(new, "S", "s"), "T", "")}

CodecPtrs == DOMAIN CodecHeap

CodecValues ==
  {<<>>} \cup {<<p>> : p \in CodecPtrs} \cup {<<1, p>> : p \in CodecPtrs}

RECURSIVE with_values_added(_, _, _)
with_values_added(in, vs, h) ==
  IF vs = <<>> THEN in
  ELSE with_values_added(add_value(in, Head(vs), h[Head(vs)].name).inner, Tail(vs), h)

\* A text in the grammar of the wire protocol, from its header pairs <<id, value>>
\* and its data items <<name, type_name, data>>.
RECURSIVE wire_pairs_text(_)
wire_pairs_text(pairs) ==
  IF pairs = <<>> THEN ""
  ELSE "[" \o Head(pairs)[1] \o "," \o Head(pairs)[2] \o "];" \o wire_pairs_text(Tail(pairs))

RECURSIVE wire_items_text(_)
wire_items_text(items) ==
  IF items = <<>> THEN ""
  ELSE "[" \o Head(items)[1] \o "," \o Head(items)[2] \o "," \o Head(items)[3] \o "];"
       \o wire_items_text(Tail(items))

wire_text(doc) ==
  "@header={{" \o wire_pairs_text(doc.header) \o "}};@data={{"
  \o wire_items_text(doc.data) \o "}};"

\* The wire texts handed to deserialize_cpp_wire: well-formed ones, and ones with a
\* header id the protocol does not define, a type name it does not define, a
\* nested type, a name or a payload that is not of the item's grammar or type.
WireHeaders ==
  {<<>>, <<<<"5", "m">>, <<"6", "1.0.0.0">>>>, <<<<"9", "x">>, <<"3", "S">>>>,
   <<<<"300", "x">>>>}

WireGoodItem == <<"a", "int_value", "42">>

WireItems ==
  {WireGoodItem, <<"b", "bool_value", "true">>, <<"b", "bool_value", "yes">>,
   <<"t", "string_value", "hi">>, <<"y", "bytes_value", "4869">>,
   <<"y", "bytes_value", "486">>, <<"a", "int_value", "4x">>,
   <<"s", "short_value", "70000">>, <<"b b", "int_value", "7">>,
   <<"a", "foo_value", "1">>, <<"a", "foo-value", "1">>,
   <<"c", "container_value", "0">>, <<"r", "array_value", "0">>}

WireDocs ==
  {[header |-> hd, data |-> items] :
     hd \in WireHeaders, items \in {<<>>, <<WireGoodItem>>}}
  \cup {[header |-> <<>>, data |-> items] :
          items \in {<<x>> : x \in WireItems} \cup {<<x, WireGoodItem>> : x \in WireItems}}

\* The arrays handed to to_binary_bytes: their elements are value objects of the
\* heap, of one kind or of two.
CodecArrays ==
  {Value("r", "array", 0, es) :
     es \in {<<>>, <<1>>, <<1, 1>>, <<1, 4>>, <<4>>, <<4, 1>>, <<5>>, <<6>>, <<6, 1>>,
             <<7>>, <<2>>, <<3>>}}

\* The buffers handed to deserialize_binary besides the ones to_binary_bytes wrote:
\* an empty one, the header of another kind, a header whose name is longer than
\* the buffer or is not UTF-8, a count with no element, an element of a type id
\* that is not defined, and Int and String elements whose name or payload is
\* declared longer than the buffer.
BinaryDocs ==
  {<<>>,
   <<14, 0, 0, 0, 0, 4, 0, 0, 0, 0, 0, 0, 0>>,
   <<15, 9, 0, 0, 0, 4, 0, 0, 0, 0, 0, 0, 0>>,
   <<15, 1, 0, 0, 0, 255, 4, 0, 0, 0, 0, 0, 0, 0>>,
   <<15, 0, 0, 0, 0, 4, 0, 0, 0, 1, 0, 0, 0>>,
   <<15, 0, 0, 0, 0, 5, 0, 0, 0, 1, 0, 0, 0, 16>>,
   <<15, 0, 0, 0, 0, 17, 0, 0, 0, 1, 0, 0, 0, 4, 9, 0, 0, 0, 4, 0, 0, 0, 1, 0, 0, 0>>,
   <<15, 0, 0, 0, 0, 17, 0, 0, 0, 1, 0, 0, 0, 4, 1, 0, 0, 0, 255, 4, 0, 0, 0, 1, 0, 0, 0>>,
   <<15, 0, 0, 0, 0, 17, 0, 0, 0, 1, 0, 0, 0, 12, 0, 0, 0, 0, 9, 0, 0, 0, 104, 105, 33, 33>>,
   <<15, 0, 0, 0, 0, 17, 0, 0, 0, 1, 0, 0, 0, 12, 0, 0, 0, 0, 2, 0, 0, 0, 104, 105, 33, 33>>}

\* A value of a JSON v2 document or of a flat document, and a value of the values
\* object of a C++ JSON document.
V2Dict(name, type_id, data) ==
  JObject(("name" :> JString(name)) @@ ("type" :> JNumber(type_id)) @@ ("data" :> data))

CppDict(type_id, data) == JObject(("type" :> JNumber(type_id)) @@ ("data" :> data))

V2GoodDict == V2Dict("a", ValueType["int"], JNumber(42))

\* The values of the JSON v2 documents handed to from_v2_json: well-formed ones,
\* and ones without a name, without data, with a type id that is not defined, or
\* with data that is not of the JSON type of the kind.
V2Dicts ==
  {V2GoodDict,
   V2Dict("b", ValueType["bool"], JBool(TRUE)),
   V2Dict("s", ValueType["short"], JNumber(-7)),
   JObject(("type" :> JNumber(ValueType["int"])) @@ ("data" :> JNumber(1))),
   JObject(("name" :> JString("a")) @@ ("type" :> JNumber(ValueType["int"]))),
   V2Dict("a", 99, JNumber(1)),
   V2Dict("a", ValueType["int"], JString("x")),
   V2Dict("b", ValueType["bool"], JNumber(1)),
   V2Dict("s", ValueType["short"], JNumber(70000))}

V2Doc(values) ==
  JObject("container" :> JObject(("version" :> JString("2.0")) @@ ("values" :> values)))

\* The documents handed to from_v2_json besides the ones to_v2_json wrote: a text
\* that is not JSON, a document without the container, one of another version,
\* one whose values are not an array, and documents of one value or two.
V2Docs ==
  {NotJson, JObject("values" :> JArray(<<>>)),
   JObject("container" :> JObject(("version" :> JString("1.0"))
                                  @@ ("values" :> JArray(<<>>)))),
   V2Doc(JString("x"))}
  \cup {V2Doc(JArray(<<d>>)) : d \in V2Dicts}
  \cup {V2Doc(JArray(<<d, V2GoodDict>>)) : d \in V2Dicts}

\* The values of the C++ JSON documents handed to from_cpp_json: well-formed ones,
\* and ones with a type id that is not defined, with data that is not a string
\* or that does not denote a value of the kind.
CppDicts ==
  {CppDict(ValueType["int"], JString("42")),
   CppDict(ValueType["bool"], JString("true")),
   CppDict(99, JString("1")),
   CppDict(ValueType["int"], JString("4x")),
   CppDict(ValueType["int"], JNumber(42)),
   CppDict(ValueType["bool"], JString("yes")),
   JObject("data" :> JString("1"))}

CppDoc(values) == JObject(("header" :> JObject(<<>>)) @@ ("values" :> values))

\* The documents handed to from_cpp_json besides the ones to_cpp_json wrote.
CppDocs ==
  {NotJson, JObject("values" :> JObject(<<>>)), CppDoc(JArray(<<>>))}
  \cup {CppDoc(JObject("a" :> d)) : d \in CppDicts}
  \cup {CppDoc(JObject(("a" :> d) @@ ("z" :> CppDict(ValueType["int"], JString("42"))))) :
          d \in CppDicts}

\* A call of a codec that has returned: the operation, its argument (the document
\* a parser was given), whether it returned Ok, and the text it returned.
CodecCall(op, arg, ok, out) == [op |-> op, arg |-> arg, ok |-> ok, out |-> out]

InitCodec ==
  /\ heap = CodecHeap
  /\ \E hd \in CodecHeaders, vs \in CodecValues :
       /\ \/ hd = new
          \/ vs \in {<<>>, <<1, 4>>}
          \/ hd.message_type = "m" /\ vs \in {<<1, 2>>, <<3>>, <<5>>}
       /\ inner = with_values_added(hd, vs, CodecHeap)
  /\ copied = <<>>
  /\ last = CodecCall("new", <<>>, TRUE, "")
  /\ lock = Unlocked
  /\ pc = [t \in Threads |-> "idle"]
  /\ cur = [t \in Threads |-> NoCall]

\* A serializer returns r: a text or an error. The container a parser returned
\* before is dropped.
Serialized(op, r) ==
  /\ last' = CodecCall(op, <<>>, r.ok, IF r.ok THEN r.val ELSE "")
  /\ heap' = CodecHeap
  /\ copied' = <<>>
  /\ UNCHANGED <<inner, lock, pc, cur>>

\* A parser given arg returns r: a container, with the heap of its values, or an error.
Deserialized(op, arg, r) ==
  /\ last' = CodecCall(op, arg, r.ok, "")
  /\ heap' = IF r.ok THEN r.heap ELSE CodecHeap
  /\ copied' = IF r.ok THEN r.inner ELSE <<>>
  /\ UNCHANGED <<inner, lock, pc, cur>>

SerializeCppWire == Serialized("serialize_cpp_wire", serialize_cpp_wire(inner, CodecHeap))

DeserializeCppWire(doc) ==
  Deserialized("deserialize_cpp_wire", doc, deserialize_cpp_wire(wire_text(doc), CodecHeap))

\* deserialize_cpp_wire of the text serialize_cpp_wire has just returned, as in
\* test_roundtrip.
RoundTripCppWire ==
  /\ last.op = "serialize_cpp_wire" /\ last.ok
  /\ Deserialized("roundtrip_cpp_wire", last.out, deserialize_cpp_wire(last.out, CodecHeap))

\* ArrayValue::to_binary_bytes of an array: the bytes are the text returned.
ToBinaryBytes(a) ==
  /\ last' = CodecCall("to_binary_bytes", a, TRUE, to_binary_bytes(a, CodecHeap))
  /\ heap' = CodecHeap
  /\ copied' = <<>>
  /\ UNCHANGED <<inner, lock, pc, cur>>

\* ArrayValue::deserialize_binary of a buffer: what it returned is the outcome, an
\* array (its name and its elements), an error or a panic.
DeserializeBinary(data) ==
  /\ last' = CodecCall("deserialize_binary", data, deserialize_binary(data).ok,
                       deserialize_binary(data))
  /\ heap' = CodecHeap
  /\ copied' = <<>>
  /\ UNCHANGED <<inner, lock, pc, cur>>

ToV2Json == Serialized("to_v2_json", to_v2_json(inner, CodecHeap))

ToCppJson == Serialized("to_cpp_json", to_cpp_json(inner, CodecHeap))

ToPythonJson == Serialized("to_python_json", to_python_json(inner, CodecHeap))

FromV2Json(doc) == Deserialized("from_v2_json", doc, from_v2_json(doc, CodecHeap))

FromCppJson(doc) == Deserialized("from_cpp_json", doc, from_cpp_json(doc, CodecHeap))

\* The text a serializer returned, as a document.
map_to_text(r) == IF r.ok THEN Ok(Text(r.val)) ELSE Err

\* The document of the container in a format, as its serializer wrote it; a text
\* of no format for Unknown.
DocumentOf(format, in, h) ==
  CASE format = "JsonV2" -> to_v2_json(in, h)
    [] format = "CppJson" -> to_cpp_json(in, h)
    [] format = "PythonJson" -> to_python_json(in, h)
    [] format = "WireProtocol" -> map_to_text(serialize_cpp_wire(in, h))
    [] format = "Unknown" -> Ok(NotJson)

\* convert_format of the document of the container in one format to another
\* format: the argument is the document and the two formats.
ConvertFormat ==
  /\ heap' = CodecHeap
  /\ copied' = <<>>
  /\ UNCHANGED <<inner, lock, pc, cur>>
  /\ \E source_format, target_format \in SerializationFormat :
       \E doc \in {DocumentOf(source_format, inner, CodecHeap)} :
         /\ doc.ok
         /\ \E r \in {convert_format(doc.val, target_format, CodecHeap)} :
              last' = CodecCall("convert_format",
                                [data |-> doc.val, source_format |-> source_format,
                                 target_format |-> target_format],
                                r.ok, IF r.ok THEN r.val ELSE "")

NextCodec ==
  \/ SerializeCppWire
  \/ ToV2Json
  \/ ToCppJson
  \/ ToPythonJson
  \/ \E doc \in V2Docs : FromV2Json(doc)
  \/ last.op = "to_v2_json" /\ FromV2Json(last.out)
  \/ \E doc \in CppDocs : FromCppJson(doc)
  \/ last.op = "to_cpp_json" /\ FromCppJson(last.out)
  \/ ConvertFormat
  \/ \E doc \in WireDocs : DeserializeCppWire(doc)
  \/ \E a \in CodecArrays : ToBinaryBytes(a)
  \/ \E data \in BinaryDocs : DeserializeBinary(data)
  \/ last.op = "to_binary_bytes" /\ DeserializeBinary(last.out)

SpecCodec == InitCodec /\ [][NextCodec]_vars

\* The wire protocol alone: a container is written as wire text, a wire text is
\* read, and the text just written is read back.
NextRoundTrip ==
  \/ SerializeCppWire
  \/ \E doc \in WireDocs : DeserializeCppWire(doc)
  \/ RoundTripCppWire

SpecRoundTrip == InitCodec /\ [][NextRoundTrip]_vars

\* ---------------------------------------------------------------- properties of the codecs

\* The value objects of a container, in the order of its sequence.
ValuesOf(in, h) == [i \in 1..Len(in.values) |-> h[in.values[i]]]

\* C13: a successful serialize_cpp_wire drops no value: each value of the container
\* appears in the text as a data item [name,type_name,...
C13_WireDropsNoValue ==
  last.op = "serialize_cpp_wire" /\ last.ok =>
    \A i \in 1..Len(inner.values) :
      find(last.out,
           "[" \o heap[inner.values[i]].name \o ","
               \o value_type_to_cpp_name(heap[inner.values[i]].vtype) \o ",", 1) > 0

\* The type names the wire protocol defines for the kinds it carries.
WireTypeNames == {vt \o "_value" : vt \in ValueTypes \ {"container", "array", "null"}}

\* C15: deserialize_cpp_wire fails on a text with a data item whose type name is
\* not defined or is that of a Container or an Array, and succeeds on a text whose
\* header has an id that is not defined and that has no data item.
C15_WireUnknownTypeFails ==
  last.op = "deserialize_cpp_wire" =>
    /\ (\E i \in 1..Len(last.arg.data) : last.arg.data[i][2] \notin WireTypeNames)
         => ~last.ok
    /\ last.arg.data = <<>> => last.ok

\* C18: the binary round trip of an array: deserialize_binary of the bytes that
\* to_binary_bytes wrote for an array returns an array of the same name whose
\* elements have the names, types and payloads of the elements of the array.
C18_BinaryRoundTrip ==
  \A a \in CodecArrays :
    last.op = "deserialize_binary" /\ last.arg = to_binary_bytes(a, CodecHeap) =>
      /\ last.ok
      /\ last.out.val = [name |-> a.name,
                         elements |-> [i \in 1..Len(a.children) |-> CodecHeap[a.children[i]]]]

\* C19: deserialize_binary never panics: whatever the buffer, it returns an array
\* or an error.
C19_BinaryNeverPanics ==
  last.op = "deserialize_binary" => "panic" \notin DOMAIN last.out

\* An item <<name, type_name, data>> of a wire text is well formed: a name of word
\* characters, a type name of the protocol, and data that denotes a value of the
\* type.
WireItemWellFormed(item) ==
  /\ item[1] # "" /\ Chars(item[1]) \subseteq WordChars
  /\ item[2] \in WireTypeNames
  /\ CASE item[2] = "bool_value" -> item[3] \in {"true", "false"}
       [] item[2] = "int_value" -> parse_integer(item[3], -I32Max - 1, I32Max).ok
       [] item[2] = "short_value" -> parse_integer(item[3], -(2^15), 2^15 - 1).ok
       [] item[2] = "bytes_value" ->
            Len(item[3]) % 2 = 0 /\ Chars(item[3]) \subseteq Chars(HexDigits)
       [] OTHER -> TRUE

\* A value of a JSON v2 document is well formed: a name, a type id that is
\* defined, and data of the JSON type of the kind, in the range of the kind.
V2DictWellFormed(d) ==
  /\ get(d, "name").ok /\ get(d, "type").ok /\ get(d, "data").ok
  /\ d.fields["type"].n \in {ValueType[vt] : vt \in ValueTypes}
  /\ CASE d.fields["type"].n = ValueType["bool"] -> d.fields["data"].j = "bool"
       [] d.fields["type"].n = ValueType["int"] -> d.fields["data"].j = "number"
       [] d.fields["type"].n = ValueType["short"] ->
            /\ d.fields["data"].j = "number"
            /\ d.fields["data"].n \in -(2^15)..(2^15 - 1)
       [] OTHER -> TRUE

\* A value of a C++ JSON document is well formed: a type id that is defined, and
\* data that is a string and denotes a value of the kind.
CppDictWellFormed(d) ==
  /\ get(d, "type").ok /\ get(d, "data").ok
  /\ d.fields["type"].n \in {ValueType[vt] : vt \in ValueTypes}
  /\ d.fields["data"].j = "string"
  /\ CASE d.fields["type"].n = ValueType["bool"] -> d.fields["data"].s \in {"true", "false"}
       [] d.fields["type"].n = ValueType["int"] ->
            parse_integer(d.fields["data"].s, -I32Max - 1, I32Max).ok
       [] OTHER -> TRUE

\* C14: every parser returns an error on malformed input: deserialize_cpp_wire
\* on a text with an item that is not well formed, from_v2_json on a document
\* with a value that is not well formed, from_cpp_json on a document with a
\* value that is not well formed; none returns a container with the rest of the
\* values, or with a default in place of the data.
C14_ParsersRefuseMalformed ==
  /\ last.op = "deserialize_cpp_wire"
       /\ (\E i \in 1..Len(last.arg.data) : ~WireItemWellFormed(last.arg.data[i]))
       => ~last.ok
  /\ last.op = "from_v2_json" /\ last.arg \in V2Docs
       /\ get(last.arg, "container").ok
       /\ as_array(unwrap_or(get(get(last.arg, "container").val, "values"), JNull)).ok
       /\ (\E i \in 1..Len(get(get(last.arg, "container").val, "values").val.items) :
             ~V2DictWellFormed(get(get(last.arg, "container").val, "values").val.items[i]))
       => ~last.ok
  /\ last.op = "from_cpp_json" /\ last.arg \in CppDocs
       /\ as_object(unwrap_or(get(last.arg, "values"), JNull)).ok
       /\ (\E k \in DOMAIN get(last.arg, "values").val.fields :
             ~CppDictWellFormed(get(last.arg, "values").val.fields[k]))
       => ~last.ok

\* A value object with its children, as the values they point to.
RECURSIVE Payload(_, _)
Payload(v, h) ==
  [name |-> v.name, vtype |-> v.vtype, data |-> v.data,
   children |-> [i \in 1..Len(v.children) |-> Payload(h[v.children[i]], h)]]

\* The header fields of a container.
HeaderOf(in) ==
  [source_id |-> in.source_id, source_sub_id |-> in.source_sub_id,
   target_id |-> in.target_id, target_sub_id |-> in.target_sub_id,
   message_type |-> in.message_type, version |-> in.version]

\* C16: the JSON v2 round trip: from_v2_json of the document to_v2_json wrote for
\* a container returns a container of the same header fields and as many values,
\* each of the name, type and payload of its counterpart.
C16_V2RoundTrip ==
  last.op = "from_v2_json" /\ last.arg = to_v2_json(inner, CodecHeap).val =>
    /\ last.ok
    /\ HeaderOf(copied) = HeaderOf(inner)
    /\ Len(copied.values) = Len(inner.values)
    /\ \A i \in 1..Len(inner.values) :
         Payload(heap[copied.values[i]], heap) = Payload(CodecHeap[inner.values[i]], CodecHeap)

\* The values of a JSON document, each as its name, type id and data: of the
\* values array of a JSON v2 document or a flat one, of the values object of a
\* C++ JSON document.
DocValues(format, doc) ==
  LET values == IF format = "JsonV2" THEN get(get(doc, "container").val, "values").val
                ELSE get(doc, "values").val
  IN IF format = "CppJson"
       THEN {<<k, values.fields[k].fields["type"], values.fields[k].fields["data"]>> :
               k \in DOMAIN values.fields}
       ELSE {<<values.items[i].fields["name"].s, values.items[i].fields["type"],
               values.items[i].fields["data"]>> : i \in 1..Len(values.items)}

\* The formats whose documents hold their values in the same form.
SameLayout(source_format, target_format) ==
  \/ {source_format, target_format} \subseteq {"JsonV2", "PythonJson"}
  \/ source_format = "CppJson" /\ target_format = "CppJson"

\* C17: convert_format preserves the values: between two JSON formats of the same
\* layout it returns a document whose values have the names, types and data of
\* the values of the document it was given, none lost.
C17_ConvertPreservesValues ==
  last.op = "convert_format"
    /\ SameLayout(last.arg.source_format, last.arg.target_format) =>
      /\ last.ok
      /\ DocValues(last.arg.target_format, last.out)
           = DocValues(last.arg.source_format, last.arg.data)

\* C20: a kind has one type id: the id the encoders write for a value object (the
\* first byte of its framed to_bytes, the "type" of its JSON v2 value, the type
\* byte of the value store) is the ValueType discriminant of its kind, and the
\* array element decoder, the JSON decoders and the value store decoder read
\* that id as the kind.
C20_OneTypeIdPerKind ==
  \A p \in DOMAIN CodecHeap :
    LET v == heap[p]
        type_id == value_to_v2_dict(v, heap).fields["type"].n
    IN /\ type_id = ValueType[v.vtype]
       /\ v.vtype \in {"bool", "int", "long", "string", "bytes", "null"}
            => to_bytes(v, heap)[1] = ValueType[v.vtype]
       /\ element_type_of_byte(type_id) = Ok(v.vtype)
       /\ json_type_of_id(type_id) = Ok(v.vtype)
       /\ cpp_type_of_id(type_id) = Ok(v.vtype)
       /\ value_type_from_u8(type_id) = v.vtype

\* The header section of a wire document: the text before its data section.
HeaderText(out) == SubSeq(out, 1, find(out, "@data=", 1) - 1)

\* The header section has an entry of the id.
HasEntry(out, id) == find(HeaderText(out), "[" \o int_to_string(id) \o ",", 1) > 0

\* C27: serialize_cpp_wire writes no header entry of an id from 1 to 4 (the
\* routing fields) when message_type is "data_container", and writes the entries
\* of message_type (5) and version (6) always.
C27_RoutingOmittedForDataContainer ==
  last.op = "serialize_cpp_wire" =>
    /\ last.ok
    /\ inner.message_type = "data_container" => \A id \in 1..4 : ~HasEntry(last.out, id)
    /\ HasEntry(last.out, 5) /\ HasEntry(last.out, 6)

\* A container of message type "data_container" whose source and target are set
\* was serialized.
C27_Witness ==
  /\ last.op = "serialize_cpp_wire"
  /\ inner.message_type = "data_container"
  /\ inner.source_id # "" /\ inner.target_id # ""
  /\ last.ok

\* The kinds the wire round trip is claimed for: the scalars, String and Bytes.
WireRoundTripKinds ==
  {"bool", "short", "ushort", "int", "uint", "long", "ulong", "llong", "ullong",
   "float", "double", "string", "bytes"}

\* C29: the wire round trip: for a container whose message type is not
\* "data_container" and whose values are scalars, Strings and Bytes,
\* deserialize_cpp_wire of the text serialize_cpp_wire wrote returns a container
\* of the same source and target ids and sub-ids, message type and number of
\* values, each value of the name, type and data of its counterpart.
C29_WireRoundTrip ==
  /\ last.op = "roundtrip_cpp_wire"
  /\ inner.message_type # "data_container"
  /\ \A i \in 1..Len(inner.values) : CodecHeap[inner.values[i]].vtype \in WireRoundTripKinds
  => /\ last.ok
     /\ [HeaderOf(copied) EXCEPT !.version = ""] = [HeaderOf(inner) EXCEPT !.version = ""]
     /\ Len(copied.values) = Len(inner.values)
     /\ \A i \in 1..Len(inner.values) :
          /\ heap[copied.values[i]].name = CodecHeap[inner.values[i]].name
          /\ heap[copied.values[i]].vtype = CodecHeap[inner.values[i]].vtype
          /\ heap[copied.values[i]].data = CodecHeap[inner.values[i]].data

\* ---------------------------------------------------------------- numbers

\* The integers of the model end at i32::MAX. An i64 or a u64 is the eight bytes of
\* its two's complement, low byte first; le_bits is its bits, high bit first.
le_bits(b) ==
  [i \in 1..(8 * Len(b)) |->
     (b[Len(b) - ((i - 1) \div 8)] \div 2^(7 - ((i - 1) % 8))) % 2]

\* The little-endian bytes of a bit vector of whole bytes.
bits_to_le(v) ==
  [j \in 1..(Len(v) \div 8) |->
     LET at == Len(v) - 8 * j
     IN 128 * v[at + 1] + 64 * v[at + 2] + 32 * v[at + 3] + 16 * v[at + 4]
        + 8 * v[at + 5] + 4 * v[at + 6] + 2 * v[at + 7] + v[at + 8]]

zeros(n) == [i \in 1..n |-> 0]
ones(n) == [i \in 1..n |-> 1]

\* A bit vector without its leading zeros: the binary numeral of a magnitude.
strip(v) ==
  IF \A i \in 1..Len(v) : v[i] = 0 THEN <<>>
  ELSE SubSeq(v, CHOOSE i \in 1..Len(v) : v[i] = 1 /\ \A j \in 1..(i - 1) : v[j] = 0, Len(v))

\* A magnitude without its trailing zeros.
strip_low(v) ==
  IF \A i \in 1..Len(v) : v[i] = 0 THEN <<>>
  ELSE SubSeq(v, 1, CHOOSE i \in 1..Len(v) : v[i] = 1 /\ \A j \in (i + 1)..Len(v) : v[j] = 0)

\* Two's complement negation of a bit vector: the bits above its lowest one flip.
neg_bits(v) ==
  IF \A i \in 1..Len(v) : v[i] = 0 THEN v
  ELSE LET k == CHOOSE i \in 1..Len(v) : v[i] = 1 /\ \A j \in (i + 1)..Len(v) : v[j] = 0
       IN [i \in 1..Len(v) |-> IF i < k THEN 1 - v[i] ELSE v[i]]

\* The sign and the magnitude of an iN, and of a uN.
signed(b) ==
  LET v == le_bits(b)
  IN [neg |-> v[1] = 1, bits |-> strip(IF v[1] = 1 THEN neg_bits(v) ELSE v)]

unsigned(b) == [neg |-> FALSE, bits |-> strip(le_bits(b))]

\* The iN of len bytes of a sign and a magnitude that fits.
bits_to_int(neg, bits, len) ==
  LET v == zeros(8 * len - Len(bits)) \o bits
  IN bits_to_le(IF neg THEN neg_bits(v) ELSE v)

\* a < b of two magnitudes.
bits_lt(a, b) ==
  \/ Len(a) < Len(b)
  \/ /\ Len(a) = Len(b)
     /\ \E i \in 1..Len(a) : a[i] < b[i] /\ \A j \in 1..(i - 1) : a[j] = b[j]

\* a < b of two integers, each a sign and a magnitude.
int_lt(a, b) ==
  CASE a.neg /\ ~b.neg -> TRUE
    [] ~a.neg /\ b.neg -> FALSE
    [] ~a.neg /\ ~b.neg -> bits_lt(a.bits, b.bits)
    [] a.neg /\ b.neg -> bits_lt(b.bits, a.bits)

\* i32::MIN, i32::MAX, u32::MAX, i64::MIN and i64::MAX, each as an i64 or a u64.
I32MinBytes == <<0, 0, 0, 128, 255, 255, 255, 255>>
I32MaxBytes == <<255, 255, 255, 127, 0, 0, 0, 0>>
U32MaxBytes == <<255, 255, 255, 255, 0, 0, 0, 0>>
I64MinBytes == <<0, 0, 0, 0, 0, 0, 0, 128>>
I64MaxBytes == <<255, 255, 255, 255, 255, 255, 255, 127>>

\* i32::try_from(u: i64): `if u < MIN as i64 || u > MAX as i64 { Err } else
\* { Ok(u as i32) }`; the cast keeps the low four bytes.
i32_try_from(u) ==
  IF int_lt(signed(u), signed(I32MinBytes)) \/ int_lt(signed(I32MaxBytes), signed(u))
    THEN Err ELSE Ok(SubSeq(u, 1, 4))

\* u32::try_from(u: u64): `if u > MAX as u64 { Err } else { Ok(u as u32) }`.
u32_try_from(u) ==
  IF int_lt(unsigned(U32MaxBytes), unsigned(u)) THEN Err ELSE Ok(SubSeq(u, 1, 4))

\* LongValue::new of an i64: the value field is the four bytes of the i32.
LongValue_new_unchecked(name, value) == Ok(Value(name, "long", SubSeq(value, 1, 4), <<>>))

LongValue_new(name, value) ==
  LET val32 == i32_try_from(value)
  IN IF val32.ok THEN Ok(Value(name, "long", val32.val, <<>>)) ELSE Err

\* ULongValue::new of a u64: the value field is the four bytes of the u32.
ULongValue_new(name, value) ==
  LET val32 == u32_try_from(value)
  IN IF val32.ok THEN Ok(Value(name, "ulong", val32.val, <<>>)) ELSE Err

\* LLongValue::new of an i64 and ULLongValue::new of a u64 return Self.
LLongValue_new(name, value) == Ok(Value(name, "llong", value, <<>>))

ULLongValue_new(name, value) == Ok(Value(name, "ullong", value, <<>>))

\* An f32 or an f64: NaN, an infinity, or the finite number (-1)^neg * bits * 2^e,
\* whose significand bits is a binary numeral without leading and trailing zeros
\* (none for zero) of at most 24 bits for an f32 and 53 for an f64.
NaN == [class |-> "nan", neg |-> FALSE, bits |-> <<>>, e |-> 0]

Infinity(neg) == [class |-> "inf", neg |-> neg, bits |-> <<>>, e |-> 0]

Finite(neg, bits, e) ==
  LET m == strip_low(strip(bits))
  IN [class |-> "finite", neg |-> neg, bits |-> m,
      e |-> IF m = <<>> THEN 0 ELSE e + (Len(strip(bits)) - Len(m))]

\* f32::is_finite, f64::is_finite
is_finite(f) == f.class = "finite"

\* A magnitude plus one.
inc(v) ==
  IF \A i \in 1..Len(v) : v[i] = 1 THEN <<1>> \o zeros(Len(v))
  ELSE LET k == CHOOSE i \in 1..Len(v) : v[i] = 0 /\ \A j \in (i + 1)..Len(v) : v[j] = 1
       IN [i \in 1..Len(v) |-> IF i < k THEN v[i] ELSE IF i = k THEN 1 ELSE 0]

\* The number of significand digits p nearest to bits * 2^e, ties to the even one.
round_to(neg, bits, e, p) ==
  IF Len(bits) <= p THEN Finite(neg, bits, e)
  ELSE LET top == SubSeq(bits, 1, p)
           rest == SubSeq(bits, p + 1, Len(bits))
           up == rest[1] = 1 /\ (top[p] = 1 \/ \E i \in 2..Len(rest) : rest[i] = 1)
       IN Finite(neg, IF up THEN inc(top) ELSE top, e + Len(rest))

\* `n as f32` (p = 24) and `n as f64` (p = 53) of an integer, a sign and a magnitude.
int_as_float(n, p) == round_to(n.neg, n.bits, 0, p)

\* a < b of the magnitudes of two numbers that are not NaN.
mag_lt(a, b) ==
  LET bit(v, i) == IF i <= Len(v) THEN v[i] ELSE 0
      n == IF Len(a.bits) > Len(b.bits) THEN Len(a.bits) ELSE Len(b.bits)
  IN CASE b.class = "inf" -> a.class # "inf"
       [] a.class = "inf" -> FALSE
       [] b.bits = <<>> -> FALSE
       [] a.bits = <<>> -> TRUE
       [] OTHER ->
         \/ Len(a.bits) + a.e < Len(b.bits) + b.e
         \/ /\ Len(a.bits) + a.e = Len(b.bits) + b.e
            /\ \E i \in 1..n : /\ bit(a.bits, i) < bit(b.bits, i)
                               /\ \A j \in 1..(i - 1) : bit(a.bits, j) = bit(b.bits, j)

\* a < b of two floating-point numbers: false when one is NaN; -0.0 = 0.0.
float_lt(a, b) ==
  CASE a.class = "nan" \/ b.class = "nan" -> FALSE
    [] a.neg /\ ~b.neg -> ~(a.class = "finite" /\ a.bits = <<>>
                            /\ b.class = "finite" /\ b.bits = <<>>)
    [] ~a.neg /\ b.neg -> FALSE
    [] ~a.neg /\ ~b.neg -> mag_lt(a, b)
    [] a.neg /\ b.neg -> mag_lt(b, a)

\* The integer part of a finite number, as a magnitude.
trunc(f) ==
  IF f.e >= 0 THEN f.bits \o zeros(f.e)
  ELSE IF Len(f.bits) + f.e <= 0 THEN <<>>
  ELSE SubSeq(f.bits, 1, Len(f.bits) + f.e)

\* `f as iN` for the iN of len bytes: the cast saturates. NaN is 0, a number
\* beyond the range is MIN or MAX, any other is its integer part.
float_as_int(f, len) ==
  LET max == bits_to_le(<<0>> \o ones(8 * len - 1))
      min == bits_to_le(<<1>> \o zeros(8 * len - 1))
  IN CASE f.class = "nan" -> bits_to_le(zeros(8 * len))
       [] f.class = "inf" -> IF f.neg THEN min ELSE max
       [] f.class = "finite" /\ ~f.neg ->
            IF Len(trunc(f)) > 8 * len - 1 THEN max
            ELSE bits_to_int(FALSE, trunc(f), len)
       [] f.class = "finite" /\ f.neg ->
            IF bits_lt(<<1>> \o zeros(8 * len - 1), trunc(f)) THEN min
            ELSE bits_to_int(TRUE, trunc(f), len)

\* FloatValue::to_int: the i32 returned is its four bytes.
FloatValue_to_int(v) ==
  IF ~is_finite(v.data) THEN Err
  ELSE IF \/ float_lt(int_as_float(signed(I32MaxBytes), 24), v.data)
          \/ float_lt(v.data, int_as_float(signed(I32MinBytes), 24)) THEN Err
  ELSE Ok(float_as_int(v.data, 4))

\* FloatValue::to_long: the i64 returned is its eight bytes.
FloatValue_to_long(v) ==
  IF ~is_finite(v.data) THEN Err
  ELSE IF \/ float_lt(int_as_float(signed(I64MaxBytes), 24), v.data)
          \/ float_lt(v.data, int_as_float(signed(I64MinBytes), 24)) THEN Err
  ELSE Ok(float_as_int(v.data, 8))

\* DoubleValue::to_long
DoubleValue_to_long(v) ==
  IF ~is_finite(v.data) THEN Err
  ELSE IF \/ float_lt(int_as_float(signed(I64MaxBytes), 53), v.data)
          \/ float_lt(v.data, int_as_float(signed(I64MinBytes), 53)) THEN Err
  ELSE Ok(float_as_int(v.data, 8))

\* DoubleValue::to_int
DoubleValue_to_int(v) ==
  IF ~is_finite(v.data) THEN Err
  ELSE IF \/ float_lt(int_as_float(signed(I32MaxBytes), 53), v.data)
          \/ float_lt(v.data, int_as_float(signed(I32MinBytes), 53)) THEN Err
  ELSE Ok(float_as_int(v.data, 4))

\* Value::to_float and Value::to_double: every integer kind casts its value
\* (`self.value as f32`, `self.value as f64`), a FloatValue and a DoubleValue
\* return or cast theirs; the other kinds keep the default, an error. The value
\* of an integer kind is an integer of the model here.
to_float(v) ==
  CASE v.vtype \in {"short", "ushort", "int", "uint", "long", "ulong", "llong",
                    "ullong"} -> Ok(int_as_float(signed(to_le_bytes(v.data, 8)), 24))
    [] v.vtype = "float" -> Ok(v.data)
    [] v.vtype = "double" ->
         Ok(IF is_finite(v.data) THEN round_to(v.data.neg, v.data.bits, v.data.e, 24)
            ELSE v.data)
    [] OTHER -> Err

to_double(v) ==
  CASE v.vtype \in {"short", "ushort", "int", "uint", "long", "ulong", "llong",
                    "ullong"} -> Ok(int_as_float(signed(to_le_bytes(v.data, 8)), 53))
    [] v.vtype \in {"float", "double"} -> Ok(v.data)
    [] OTHER -> Err

\* ---------------------------------------------------------------- calls on numbers

\* The 64-bit integers the constructors are given: the low four bytes and the
\* high four bytes each from the ends of their range, which gives the bounds of
\* i32, u32, i64 and u64 and their neighbours.
WideInts ==
  {to_le_bytes(low, 4) \o high :
     low \in {0, 1, -1, 70000, I32Max, -I32Max - 1},
     high \in {<<0, 0, 0, 0>>, <<255, 255, 255, 255>>, <<1, 0, 0, 0>>,
               <<255, 255, 255, 127>>, <<0, 0, 0, 128>>}}

\* The value objects of the integer kinds whose accessors are called.
IntegerValues ==
  {Value("test", "short", n, <<>>) : n \in {-32768, -7, 32767}}
  \cup {Value("test", "ushort", n, <<>>) : n \in {0, 65535}}
  \cup {Value("test", "int", n, <<>>) : n \in {42, I32Max, -I32Max - 1}}
  \cup {Value("test", "uint", n, <<>>) : n \in {0, 70000, I32Max}}
  \cup {Value(name, "long", n, <<>>) : name \in {"", "test"}, n \in {12345, I32Max, -I32Max - 1}}
  \cup {Value("test", "ulong", n, <<>>) : n \in {12345}}
  \cup {Value(name, "llong", n, <<>>) : name \in {"", "test"}, n \in {-1, I32Max}}
  \cup {Value("test", "ullong", n, <<>>) : n \in {9, 16777217}}

\* The numbers an f32 and an f64 both hold: NaN, the infinities, the zeros, small
\* fractions, and the numbers at and next to the bounds of i32 and i64.
Floats ==
  {NaN, Infinity(FALSE), Infinity(TRUE)}
  \cup {Finite(neg, bits, e) :
          neg \in BOOLEAN,
          bits \in {<<>>, <<1>>, <<1, 1>>, ones(24), <<1>> \o zeros(22) \o <<1>>},
          e \in {-1, 0, 7, 8, 31, 39, 40, 63, 64}}

\* The numbers only an f64 holds, next to the bounds of i32 and i64.
Doubles ==
  {Finite(neg, bits, e) :
     neg \in BOOLEAN,
     bits \in {ones(31), ones(32), <<1>> \o zeros(31) \o <<1>>, ones(53),
               <<1>> \o zeros(51) \o <<1>>},
     e \in {-1, 0, 10, 11}}

\* The value objects of the floating-point kinds whose accessors are called.
FloatValues ==
  {Value("test", "float", f, <<>>) : f \in Floats}
  \cup {Value("test", "double", f, <<>>) : f \in Floats \cup Doubles}

\* What a call on numbers is given: an i64, a u64 or a value object.
NumInput(of, value) == [of |-> of, value |-> value]

InitNum ==
  /\ heap = <<>>
  /\ inner = new
  /\ copied = <<>>
  /\ \/ \E of \in {"i64", "u64"}, n \in WideInts :
          last = CodecCall("input", NumInput(of, n), TRUE, "")
     \/ \E v \in IntegerValues : last = CodecCall("input", NumInput("value", v), TRUE, "")
     \/ \E v \in FloatValues : last = CodecCall("input", NumInput("value", v), TRUE, "")
  /\ lock = Unlocked
  /\ pc = [t \in Threads |-> "idle"]
  /\ cur = [t \in Threads |-> NoCall]

\* A constructor or an accessor given the input returns r.
Applied(op, r) ==
  /\ last' = CodecCall(op, last.arg, r.ok, r)
  /\ UNCHANGED <<heap, inner, copied, lock, pc, cur>>

\* The input is a value object of one of the kinds.
IsValue(kinds) == last.arg.of = "value" /\ last.arg.value.vtype \in kinds

IntegerKinds == {"short", "ushort", "int", "uint", "long", "ulong", "llong", "ullong"}

LongValueNew ==
  last.arg.of = "i64" /\ Applied("LongValue::new", LongValue_new("test", last.arg.value))

ULongValueNew ==
  last.arg.of = "u64" /\ Applied("ULongValue::new", ULongValue_new("test", last.arg.value))

LLongValueNew ==
  last.arg.of = "i64" /\ Applied("LLongValue::new", LLongValue_new("test", last.arg.value))

ULLongValueNew ==
  last.arg.of = "u64" /\ Applied("ULLongValue::new", ULLongValue_new("test", last.arg.value))

ToBytes == IsValue(IntegerKinds) /\ Applied("to_bytes", Ok(to_bytes(last.arg.value, heap)))

ToShort == IsValue(IntegerKinds) /\ Applied("to_short", to_short(last.arg.value))

ToUShort == IsValue(IntegerKinds) /\ Applied("to_ushort", to_ushort(last.arg.value))

ToInt == IsValue(IntegerKinds) /\ Applied("to_int", to_int(last.arg.value))

ToUInt == IsValue(IntegerKinds) /\ Applied("to_uint", to_uint(last.arg.value))

ToLong == IsValue(IntegerKinds) /\ Applied("to_long", to_long(last.arg.value))

ToULong == IsValue(IntegerKinds) /\ Applied("to_ulong", to_ulong(last.arg.value))

ToFloat == IsValue(IntegerKinds) /\ Applied("to_float", to_float(last.arg.value))

ToDouble == IsValue(IntegerKinds) /\ Applied("to_double", to_double(last.arg.value))

FloatToInt == IsValue({"float"}) /\ Applied("to_int", FloatValue_to_int(last.arg.value))

FloatToLong == IsValue({"float"}) /\ Applied("to_long", FloatValue_to_long(last.arg.value))

DoubleToInt == IsValue({"double"}) /\ Applied("to_int", DoubleValue_to_int(last.arg.value))

DoubleToLong == IsValue({"double"}) /\ Applied("to_long", DoubleValue_to_long(last.arg.value))

NextNum ==
  \/ LongValueNew
  \/ ULongValueNew
  \/ LLongValueNew
  \/ ULLongValueNew
  \/ ToBytes
  \/ ToShort
  \/ ToUShort
  \/ ToInt
  \/ ToUInt
  \/ ToLong
  \/ ToULong
  \/ ToFloat
  \/ ToDouble
  \/ FloatToInt
  \/ FloatToLong
  \/ DoubleToInt
  \/ DoubleToLong

SpecNum == InitNum /\ [][NextNum]_vars

\* ---------------------------------------------------------------- properties of the numbers

\* An i32 as an i64 and a u32 as a u64: the high four bytes extend the sign, or
\* are zero.
SignExtended(b) ==
  b \o (IF b[4] >= 128 THEN <<255, 255, 255, 255>> ELSE <<0, 0, 0, 0>>)

ZeroExtended(b) == b \o <<0, 0, 0, 0>>

\* C21: LongValue::new(v) succeeds exactly when v is an i32 (v is the sign
\* extension of its low 32 bits) and ULongValue::new(v) exactly when v is a u32
\* (its high 32 bits are zero); the value built holds v, never a truncation of
\* it; LLongValue::new and ULLongValue::new accept every 64-bit v and hold it.
C21_LongRangeChecked ==
  LET v == last.arg.value
  IN /\ last.op = "LongValue::new" =>
          /\ last.ok <=> v = SignExtended(SubSeq(v, 1, 4))
          /\ last.ok => SignExtended(last.out.val.data) = v
     /\ last.op = "ULongValue::new" =>
          /\ last.ok <=> v = ZeroExtended(SubSeq(v, 1, 4))
          /\ last.ok => ZeroExtended(last.out.val.data) = v
     /\ last.op \in {"LLongValue::new", "ULLongValue::new"} =>
          last.ok /\ last.out.val.data = v

\* LongValue::new has refused i32::MAX + 1.
C21_Witness ==
  /\ last.op = "LongValue::new"
  /\ last.arg.value = <<0, 0, 0, 128, 0, 0, 0, 0>>
  /\ ~last.ok

\* C22: the to_bytes of a LongValue is 4 bytes long, that of an LLongValue 8.
C22_LongIsFourBytes ==
  last.op = "to_bytes" =>
    /\ last.arg.value.vtype = "long" => Len(last.out.val) = 4
    /\ last.arg.value.vtype = "llong" => Len(last.out.val) = 8

\* The integer type an accessor returns and the one a kind holds: its sign and
\* its bits.
IntegerType ==
  [to_short |-> <<TRUE, 16>>, to_ushort |-> <<FALSE, 16>>, to_int |-> <<TRUE, 32>>,
   to_uint |-> <<FALSE, 32>>, to_long |-> <<TRUE, 64>>, to_ulong |-> <<FALSE, 64>>,
   short |-> <<TRUE, 16>>, ushort |-> <<FALSE, 16>>, int |-> <<TRUE, 32>>,
   uint |-> <<FALSE, 32>>, long |-> <<TRUE, 32>>, ulong |-> <<FALSE, 32>>,
   llong |-> <<TRUE, 64>>, ullong |-> <<FALSE, 64>>]

\* The accessor's target is wider than the kind: a floating-point type, or an
\* integer type of more bits that holds every value of the kind.
Wider(accessor, kind) ==
  \/ accessor \in {"to_float", "to_double"}
  \/ /\ accessor \in DOMAIN IntegerType
     /\ IntegerType[accessor][2] > IntegerType[kind][2]
     /\ IntegerType[accessor][1] \/ ~IntegerType[kind][1]

\* C23: on a value of an integer kind, an accessor whose target is wider than
\* the kind returns a value, never a conversion error.
C23_WideningSucceeds ==
  IsValue(IntegerKinds) /\ Wider(last.op, last.arg.value.vtype) => last.ok

\* The number is within the range of the iN of len bytes.
InRange(f, len) ==
  /\ ~float_lt(f, Finite(TRUE, <<1>>, 8 * len - 1))
  /\ ~float_lt(Finite(FALSE, ones(8 * len - 1), 0), f)

\* C24: to_int and to_long of a FloatValue or a DoubleValue fail when the number
\* is NaN, infinite or outside the range of the integer type, and return its
\* integer part (the number truncated toward zero) otherwise.
C24_FloatToIntegerChecked ==
  IsValue({"float", "double"}) /\ last.op \in {"to_int", "to_long"} =>
    LET f == last.arg.value.data
        len == IF last.op = "to_int" THEN 4 ELSE 8
    IN IF ~is_finite(f) \/ ~InRange(f, len) THEN ~last.ok
       ELSE last.ok /\ last.out.val = bits_to_int(f.neg, trunc(f), len)

\* ---------------------------------------------------------------- calls of detect_format

\* A member of a JSON object that may be absent: opt is <<>> or <<its value>>.
Member(key, opt) == IF opt = <<>> THEN <<>> ELSE key :> opt[1]

\* The texts detect_format is given: wire documents, with one brace and with two,
\* with spaces before, with a character before; texts that are no JSON; and the
\* JSON objects with or without each of the members it looks at, each member of
\* the type it looks for or of another.
DetectDocs ==
  {Text(s) : s \in {"@header={{[5,x];}};@data={{}};", "@header={[5,x];};@data={};",
                    "  @header={{}}", "@header={", "@header=", "x@header={{", "{", ""}}
  \cup {JObject(Member("container", c) @@ Member("header", h) @@ Member("values", v)
                @@ Member("message_type", m)) :
          c \in {<<>>, <<JObject("version" :> JString("2.0"))>>,
                 <<JObject("version" :> JString("1.0"))>>,
                 <<JObject("version" :> JNumber(2))>>, <<JString("2.0")>>},
          h \in {<<>>, <<JObject(<<>>)>>, <<JString("x")>>},
          v \in {<<>>, <<JObject(<<>>)>>, <<JArray(<<>>)>>},
          m \in {<<>>, <<JString("x")>>}}

InitFormat ==
  /\ heap = <<>>
  /\ inner = new
  /\ copied = <<>>
  /\ \E data \in DetectDocs : last = CodecCall("input", data, TRUE, "")
  /\ lock = Unlocked
  /\ pc = [t \in Threads |-> "idle"]
  /\ cur = [t \in Threads |-> NoCall]

DetectFormat ==
  /\ last' = CodecCall("detect_format", last.arg, TRUE, detect_format(last.arg))
  /\ UNCHANGED <<heap, inner, copied, lock, pc, cur>>

NextFormat == DetectFormat

SpecFormat == InitFormat /\ [][NextFormat]_vars

\* ---------------------------------------------------------------- properties of detect_format

\* The text starts, after trimming, with the prefix of a wire document.
HasWirePrefix(data) ==
  data.j = "invalid" /\ \E n \in 0..Len(data.text) :
    /\ \A i \in 1..n : Char(data.text, i) = " "
    /\ \/ SubSeq(data.text, n + 1, Len(data.text)) = "@header={"
       \/ /\ Len(data.text) > n + 9
          /\ SubSeq(data.text, n + 1, n + 9) = "@header={"

\* The JSON has the member, of the JSON type (any type for "").
HasMember(data, key, type) ==
  /\ data.j = "object"
  /\ key \in DOMAIN data.fields
  /\ type # "" => data.fields[key].j = type

\* The JSON's container.version is "2.0".
IsVersion2(data) ==
  /\ HasMember(data, "container", "object")
  /\ HasMember(data.fields["container"], "version", "string")
  /\ data.fields["container"].fields["version"].s = "2.0"

MaxSeen == 2

Serializers == {"serialize_cpp_wire", "to_v2_json"}

\* The accessors a serializer calls, in the order it calls them; each is a
\* self.inner.read() of its own, dropped when the accessor returns.
\* serialize_cpp_wire: message_type(), target_id(), target_sub_id(), source_id(),
\* source_sub_id(), version(), with_values(..). to_v2_json: with_values(..), then
\* the json! macro in the order of its text.
ReadOrder(op) ==
  IF op = "serialize_cpp_wire"
    THEN <<"message_type", "target_id", "target_sub_id", "source_id", "source_sub_id",
           "version", "values">>
    ELSE <<"values", "message_type", "version", "source_id", "source_sub_id",
           "target_id", "target_sub_id">>

\* The call of a serializer a thread is in: the accessor it calls next, what the
\* accessors have returned so far (the fields of new where none has), and the
\* states the container has had since the call began.
SerializerCall(op, at, read, seen) == [op |-> op, at |-> at, read |-> read, seen |-> seen]

\* The containers the threads share at first: a new one, and one that is routed.
InitSerialize ==
  /\ heap = InitHeap
  /\ inner \in {new, set_target(set_source(new, "S", "s"), "T", "t")}
  /\ copied = <<>>
  /\ last = CodecCall("new", {}, TRUE, "")
  /\ lock = Unlocked
  /\ pc = [t \in Threads |-> "idle"]
  /\ cur = [t \in Threads |-> NoCall]

\* Thread 1 calls a serializer.
SerializeInvoke(op) ==
  /\ pc[1] = "idle"
  /\ pc' = [pc EXCEPT ![1] = "read"]
  /\ cur' = [cur EXCEPT ![1] = SerializerCall(op, 1, new, {inner})]
  /\ UNCHANGED <<heap, inner, copied, last, lock>>

\* One accessor call of the serializer: the field is read under a read guard of
\* its own. serialize_cpp_wire skips the routing fields when the message type it
\* has read is "data_container".
SerializeRead ==
  /\ pc[1] = "read" /\ cur[1].at <= Len(ReadOrder(cur[1].op))
  /\ can_read(lock)
  /\ LET field == ReadOrder(cur[1].op)[cur[1].at]
     IN cur' = [cur EXCEPT
                  ![1].read = [@ EXCEPT ![field] = inner[field]],
                  ![1].at = IF /\ cur[1].op = "serialize_cpp_wire"
                               /\ field = "message_type"
                               /\ inner.message_type = "data_container"
                              THEN 6 ELSE @ + 1]
  /\ UNCHANGED <<heap, inner, copied, last, lock, pc>>

\* The serializer returns the text of what its accessors returned.
SerializeReturn ==
  /\ pc[1] = "read" /\ cur[1].at > Len(ReadOrder(cur[1].op))
  /\ \E r \in {IF cur[1].op = "serialize_cpp_wire"
                 THEN serialize_cpp_wire(cur[1].read, heap)
                 ELSE to_v2_json(cur[1].read, heap)} :
       last' = CodecCall(cur[1].op, cur[1].seen, r.ok, r.val)
  /\ pc' = [pc EXCEPT ![1] = "idle"]
  /\ cur' = [cur EXCEPT ![1] = NoCall]
  /\ UNCHANGED <<heap, inner, copied, lock>>

\* Another thread makes a call that writes, from lock to unlock: the container
\* enters a new state, which a serializer in progress has then been beside.
WriterCall ==
  /\ can_write(lock)
  /\ pc[1] = "read" => Cardinality(cur[1].seen) < MaxSeen
  /\ \/ SetSource
     \/ SetTarget
     \/ SetMessageType
     \/ SwapHeader
     \/ \E p \in StaticPtrs : AddValue(p)
  /\ cur' = [cur EXCEPT ![1] = IF pc[1] = "read"
                                 THEN [@ EXCEPT !.seen = @ \cup {inner'}] ELSE @]
  /\ UNCHANGED <<lock, pc>>

NextSerialize ==
  \/ \E op \in Serializers : SerializeInvoke(op)
  \/ SerializeRead
  \/ SerializeReturn
  \/ WriterCall

SpecSerialize == InitSerialize /\ [][NextSerialize]_vars

\* C30: a serializer called while other threads write returns the text of one
\* state the container had during the call: the header fields and the values of
\* the text are those of one state.
C30_SerializedStateExisted ==
  last.op \in Serializers =>
    \E s \in last.arg :
      last.out = (IF last.op = "serialize_cpp_wire" THEN serialize_cpp_wire(s, heap)
                  ELSE to_v2_json(s, heap)).val

====
